---- MODULE Spec2Model ----
(***************************************************************************)
(* The oaql2 query front end: the hand-written scanner (Lexer.java), the   *)
(* token kinds (sym.java) and the recursive-descent validator             *)
(* (SimpleParser.java), as a state machine.                                *)
(*                                                                         *)
(* Characters are one-character strings and the input is a sequence of    *)
(* them; Java's 0-based charAt(i) is input[i + 1].                         *)
(***************************************************************************)
EXTENDS Integers, Sequences, FiniteSets, TLC

VARIABLES input, index, line, column, lookahead, pc, parseErr, hist,
          metadataCollection, normalizedCollection, originalCollection,
          call, insertResults, nextObjectId, served,
          client, db, isConnected, mongoClients, tasks

\* The scanner and the validator.
queryVars == <<input, index, line, column, lookahead, pc, parseErr, hist>>

\* The document store and the MongoService call in progress.
storeVars == <<metadataCollection, normalizedCollection, originalCollection,
               call, insertResults, nextObjectId, served>>

vars == <<input, index, line, column, lookahead, pc, parseErr, hist,
          metadataCollection, normalizedCollection, originalCollection,
          call, insertResults, nextObjectId, served,
          client, db, isConnected, mongoClients, tasks>>

\* The DatabaseConfig singleton, the MongoClient objects constructed and
\* the callers of the singleton.
configVars == <<client, db, isConnected, mongoClients, tasks>>

\* The callers that share the exported DatabaseConfig.
Callers == {"a", "b"}

\* A caller with no call made yet.
NoCall == [op |-> "none", at |-> "idle", no |-> 0, awaiting |-> 0, result |-> 0]

\* No service call in progress.
Idle == [op |-> "none", at |-> "idle", id |-> 0, metadataId |-> 0,
         normalizedId |-> 0, originalId |-> 0, deletedCount |-> 0,
         metadataDeletedCount |-> 0, originalDeletedCount |-> 0,
         compensated |-> {}, rejected |-> FALSE]

\* The collections before any document is stored.
EmptyStore ==
  /\ metadataCollection = {}
  /\ normalizedCollection = {}
  /\ originalCollection = {}
  /\ call = Idle
  /\ insertResults = {}
  /\ nextObjectId = 1
  /\ served = 0

\* DatabaseConfig's constructor: no client, no database, not connected.
\* null is 0; a client is its number in mongoClients and a database is
\* the number of the client it was taken from.
Constructed ==
  /\ client = 0
  /\ db = 0
  /\ isConnected = FALSE
  /\ mongoClients = <<>>
  /\ tasks = [t \in Callers |-> NoCall]

(***************************************************************************)
(* Bounds of the model.                                                    *)
(***************************************************************************)
MaxLen == 4
MaxCalls == 6
MaxToks == 2
MaxWordLen == 4

(***************************************************************************)
(* sym.java: the token kinds.                                              *)
(***************************************************************************)
EOF == 0
LP == 1
RP == 2
COMMA == 3
DOT == 4
STAR == 5
OPERATOR == 6
SELECT == 7
DISTINCT == 8
FROM == 9
JOIN == 10
ON == 11
AS == 12
WHERE == 13
AND == 14
OR == 15
XOR == 16
NOT == 17
sym_IN == 18
IS == 19
NULL == 20
BETWEEN == 21
ORDER == 22
sym_BY == 23
LIMIT == 24
ASCDESC == 25
LIKE == 26
BOOL_VALUE == 27
FIELD == 28
IDENTIFIER == 29
NUM_VALUE == 30
STRING_VALUE == 31

(***************************************************************************)
(* Characters.                                                             *)
(***************************************************************************)
LowerCase ==
  <<"a","b","c","d","e","f","g","h","i","j","k","l","m",
    "n","o","p","q","r","s","t","u","v","w","x","y","z">>

UpperCase ==
  <<"A","B","C","D","E","F","G","H","I","J","K","L","M",
    "N","O","P","Q","R","S","T","U","V","W","X","Y","Z">>

Digits == <<"0","1","2","3","4","5","6","7","8","9">>

Range(f) == {f[i] : i \in DOMAIN f}

IsLetter(c) == c \in Range(LowerCase) \cup Range(UpperCase)

IsDigit(c) == c \in Range(Digits)

DigitVal(c) == (CHOOSE i \in DOMAIN Digits : Digits[i] = c) - 1

ToUpperChar(c) ==
  IF c \in Range(LowerCase)
  THEN UpperCase[CHOOSE i \in DOMAIN LowerCase : LowerCase[i] = c]
  ELSE c

\* toUpperCase leaving the text as it is.
ToUpperCase_Unchanged(s) == s

ToUpperCase(s) == [i \in DOMAIN s |-> ToUpperChar(s[i])]

\* What peekChar returns past the end of the input ('\0'); never an input character.
NUL == "NUL"

(***************************************************************************)
(* Token payloads (Symbol.value): null, a String, an Integer, a Boolean or *)
(* a Double.  A Double is kept as n * 10^e with n not divisible by 10.     *)
(***************************************************************************)
NullValue == [t |-> "null", s |-> <<>>, n |-> 0, e |-> 0, b |-> FALSE]
StrValue(s) == [t |-> "String", s |-> s, n |-> 0, e |-> 0, b |-> FALSE]
IntValue(n) == [t |-> "Integer", s |-> <<>>, n |-> n, e |-> 0, b |-> FALSE]
BoolValue(b) == [t |-> "Boolean", s |-> <<>>, n |-> 0, e |-> 0, b |-> b]

RECURSIVE Normalize(_, _)
Normalize(n, e) ==
  IF n = 0 THEN [t |-> "Double", s |-> <<>>, n |-> 0, e |-> 0, b |-> FALSE]
  ELSE IF n % 10 = 0 THEN Normalize(n \div 10, e + 1)
  ELSE [t |-> "Double", s |-> <<>>, n |-> n, e |-> e, b |-> FALSE]

RECURSIVE DigitsValue(_)
DigitsValue(s) ==
  IF s = <<>> THEN 0
  ELSE 10 * DigitsValue(SubSeq(s, 1, Len(s) - 1)) + DigitVal(s[Len(s)])

\* Double.parseDouble on a text that matches NUM_LITERAL.
ParseDouble(text) ==
  LET neg == text # <<>> /\ text[1] = "-"
      body == IF text # <<>> /\ text[1] \in {"-", "+"} THEN Tail(text) ELSE text
      ePos == IF \E i \in DOMAIN body : body[i] \in {"e", "E"}
              THEN CHOOSE i \in DOMAIN body : body[i] \in {"e", "E"}
              ELSE Len(body) + 1
      mant == SubSeq(body, 1, ePos - 1)
      expo == SubSeq(body, ePos + 1, Len(body))
      eNeg == expo # <<>> /\ expo[1] = "-"
      eDig == IF expo # <<>> /\ expo[1] \in {"-", "+"} THEN Tail(expo) ELSE expo
      dot == IF \E i \in DOMAIN mant : mant[i] = "."
             THEN CHOOSE i \in DOMAIN mant : mant[i] = "."
             ELSE Len(mant) + 1
      whole == SubSeq(mant, 1, dot - 1)
      frac == SubSeq(mant, dot + 1, Len(mant))
      n == DigitsValue(whole \o frac)
      ex == (IF eNeg THEN 0 - DigitsValue(eDig) ELSE DigitsValue(eDig)) - Len(frac)
  IN Normalize(IF neg THEN 0 - n ELSE n, ex)

(***************************************************************************)
(* java_cup.runtime.Symbol(id, left, right, value) and the scanner's       *)
(* errors.                                                                 *)
(***************************************************************************)
Symbol(id, l, r, v) == [sym |-> id, left |-> l, right |-> r, value |-> v]

\* lookahead == null, and the token of a call that threw.
NoToken == [sym |-> -1, left |-> -1, right |-> -1, value |-> NullValue]

NoError == [kind |-> "none", ch |-> "", line |-> 0, column |-> 0]
IllegalCharacter(c, l, col) ==
  [kind |-> "Illegal character", ch |-> c, line |-> l, column |-> col]
UnterminatedString(l, col) ==
  [kind |-> "Unterminated string literal", ch |-> "", line |-> l, column |-> col]
InvalidNumeric(l, col) ==
  [kind |-> "Invalid numeric literal", ch |-> "", line |-> l, column |-> col]

\* The outcome of a scanner call: the token returned or the Error thrown, and
\* the cursor (index, line, column) the call leaves behind.
Return(tok, cur) == [tok |-> tok, err |-> NoError, cur |-> cur]
\* The Error thrown after one more advance().
Throw_Advanced(err, cur) ==
  [tok |-> NoToken, err |-> err,
   cur |-> [cur EXCEPT !.index = cur.index + 1, !.column = cur.column + 1]]

Throw(err, cur) == [tok |-> NoToken, err |-> err, cur |-> cur]

(***************************************************************************)
(* Lexer.java.  A cursor is [index, line, column].                         *)
(***************************************************************************)
CharAt(i) == IF i >= 0 /\ i < Len(input) THEN input[i + 1] ELSE NUL

Substring(from, to) == SubSeq(input, from + 1, to)

\* advance() counting a newline as one more column of the next line.
Advance_ColumnKept(s) ==
  IF s.index >= Len(input) THEN s
  ELSE IF CharAt(s.index) = "\n"
       THEN [index |-> s.index + 1, line |-> s.line + 1, column |-> s.column + 1]
       ELSE [index |-> s.index + 1, line |-> s.line, column |-> s.column + 1]

Advance(s) ==
  IF s.index >= Len(input) THEN s
  ELSE IF CharAt(s.index) = "\n"
       THEN [index |-> s.index + 1, line |-> s.line + 1, column |-> 0]
       ELSE [index |-> s.index + 1, line |-> s.line, column |-> s.column + 1]

RECURSIVE AdvanceN(_, _)
AdvanceN(s, n) == IF n <= 0 THEN s ELSE AdvanceN(Advance(s), n - 1)

\* skipWhitespace without the form feed.
IsWhitespace_NoFormFeed(c) == c \in {" ", "\t", "\r", "\n"}

IsWhitespace(c) == c \in {" ", "\t", "\r", "\n", "\f"}

RECURSIVE SkipWhitespace(_)
SkipWhitespace(s) ==
  IF s.index < Len(input) /\ IsWhitespace(CharAt(s.index))
  THEN SkipWhitespace(Advance(s))
  ELSE s

\* The escape switch with only its default branch.
Unescape_Literal(c) == c

Unescape(c) ==
  CASE c = "t" -> "\t"
    [] c = "n" -> "\n"
    [] c = "r" -> "\r"
    [] c = "\"" -> "\""
    [] c = "\\" -> "\\"
    [] OTHER -> c

RECURSIVE ReadStringLoop(_, _, _, _)
ReadStringLoop(s, builder, startLine, startColumn) ==
  IF s.index >= Len(input)
  THEN Throw(UnterminatedString(startLine, startColumn), s)
  ELSE LET current == CharAt(s.index) IN
    IF current = "\""
    THEN Return(Symbol(STRING_VALUE, startLine, startColumn, StrValue(builder)),
                Advance(s))
    ELSE IF current = "\\"
    THEN IF s.index + 1 >= Len(input)
         THEN Throw(UnterminatedString(startLine, startColumn), s)
         ELSE ReadStringLoop(Advance(Advance(s)),
                             Append(builder, Unescape(CharAt(s.index + 1))),
                             startLine, startColumn)
    ELSE ReadStringLoop(Advance(s), Append(builder, current),
                        startLine, startColumn)

\* readString taking startLine and startColumn after the opening quote.
ReadString_StartAfterQuote(s) ==
  ReadStringLoop(Advance(s), <<>>, Advance(s).line, Advance(s).column)

ReadString(s) == ReadStringLoop(Advance(s), <<>>, s.line, s.column)

\* input.startsWith(operator, index)
StartsWith(operator, i) ==
  /\ i + Len(operator) <= Len(input)
  /\ \A k \in 1..Len(operator) : input[i + k] = operator[k]

\* OperatorTable with >= given the mnemonic of >.
OperatorTable_WrongMnemonic ==
  << [text |-> <<"<", ">">>, value |-> <<"$", "n", "e">>],
     [text |-> <<">", "=">>, value |-> <<"$", "g", "t">>],
     [text |-> <<"<", "=">>, value |-> <<"$", "l", "t", "e">>],
     [text |-> <<"=">>, value |-> <<"$", "e", "q">>],
     [text |-> <<">">>, value |-> <<"$", "g", "t">>],
     [text |-> <<"<">>, value |-> <<"$", "l", "t">>] >>

\* OperatorTable with the one-character operators tried first.
OperatorTable_ShortestFirst ==
  << [text |-> <<"=">>, value |-> <<"$", "e", "q">>],
     [text |-> <<">">>, value |-> <<"$", "g", "t">>],
     [text |-> <<"<">>, value |-> <<"$", "l", "t">>],
     [text |-> <<"<", ">">>, value |-> <<"$", "n", "e">>],
     [text |-> <<">", "=">>, value |-> <<"$", "g", "t", "e">>],
     [text |-> <<"<", "=">>, value |-> <<"$", "l", "t", "e">>] >>

\* The comparison operators in the order next_token tries them, each with
\* the mnemonic its token carries.
OperatorTable ==
  << [text |-> <<"<", ">">>, value |-> <<"$", "n", "e">>],
     [text |-> <<">", "=">>, value |-> <<"$", "g", "t", "e">>],
     [text |-> <<"<", "=">>, value |-> <<"$", "l", "t", "e">>],
     [text |-> <<"=">>, value |-> <<"$", "e", "q">>],
     [text |-> <<">">>, value |-> <<"$", "g", "t">>],
     [text |-> <<"<">>, value |-> <<"$", "l", "t">>] >>

\* Whether matchOperator(OperatorTable[k].text) returns true at cursor s.
MatchOperator(s, k) == StartsWith(OperatorTable[k].text, s.index)

IsIdentifierStart(c) == IsLetter(c) \/ c = "_"

\* isIdentifierPart without the hyphen.
IsIdentifierPart_NoHyphen(c) == IsLetter(c) \/ IsDigit(c) \/ c = "_"

IsIdentifierPart(c) == IsLetter(c) \/ IsDigit(c) \/ c = "_" \/ c = "-"

\* The cursor readIdentifier leaves; the text it returns is
\* Substring(s.index, ReadIdentifier(s).index).
RECURSIVE ReadIdentifier(_)
ReadIdentifier(s) ==
  IF s.index < Len(input) /\ IsIdentifierPart(CharAt(s.index))
  THEN ReadIdentifier(Advance(s))
  ELSE s

Peek(s, expected) == s.index < Len(input) /\ CharAt(s.index) = expected

PeekChar(s, offset) == CharAt(s.index + offset)

IsNumberStart(s) ==
  LET value == CharAt(s.index) IN
  IF IsDigit(value) THEN TRUE
  ELSE IF value \in {"-", "+"} /\ s.index + 1 < Len(input)
  THEN IsDigit(CharAt(s.index + 1)) \/ CharAt(s.index + 1) = "."
  ELSE value = "." /\ s.index + 1 < Len(input) /\ IsDigit(CharAt(s.index + 1))

(***************************************************************************)
(* NUM_LITERAL, [-+]?[0-9]*\.?[0-9]+([eE][-+]?[0-9]+)?, as                 *)
(* java.util.regex matches it (greedy, backtracking).                      *)
(***************************************************************************)
RECURSIVE DigitsEnd(_)
DigitsEnd(p) == IF IsDigit(CharAt(p)) THEN DigitsEnd(p + 1) ELSE p

\* [0-9]*\.?[0-9]+ from p: the end of the match, or -1.
MantissaEnd(p) ==
  LET d == DigitsEnd(p) IN
  IF CharAt(d) = "." /\ IsDigit(CharAt(d + 1)) THEN DigitsEnd(d + 1)
  ELSE IF d > p THEN d
  ELSE -1

\* The exponent group without its optional sign.
ExponentEnd_Unsigned(m) ==
  IF CharAt(m) \in {"e", "E"} /\ IsDigit(CharAt(m + 1))
  THEN DigitsEnd(m + 1)
  ELSE m

\* ([eE][-+]?[0-9]+)? from m: the end of the match (m when the group is empty).
ExponentEnd(m) ==
  IF CharAt(m) \in {"e", "E"}
  THEN LET q == IF CharAt(m + 1) \in {"-", "+"} THEN m + 2 ELSE m + 1
       IN IF IsDigit(CharAt(q)) THEN DigitsEnd(q) ELSE m
  ELSE m

\* The end of the match of NUM_LITERAL that starts at p, or -1.
MatchEndAt(p) ==
  LET m == IF CharAt(p) \in {"-", "+"} THEN MantissaEnd(p + 1) ELSE MantissaEnd(p)
  IN IF m = -1 THEN -1 ELSE ExponentEnd(m)

\* Matcher.find() on input.substring(from): the first position at or after
\* from where NUM_LITERAL matches, or -1.
RECURSIVE MatcherFind(_)
MatcherFind(from) ==
  IF from >= Len(input) THEN -1
  ELSE IF MatchEndAt(from) # -1 THEN from
  ELSE MatcherFind(from + 1)

\* matcher.group() for a match that starts at start, with the cursor after
\* advancing over value.length() characters from s.
MatcherGroup(s, value) ==
  [ok |-> TRUE, value |-> value, cur |-> AdvanceN(s, Len(value)), err |-> NoError]

ReadNumberAt(s, start) ==
  IF start = -1
  THEN [ok |-> FALSE, value |-> <<>>, cur |-> s,
        err |-> InvalidNumeric(s.line, s.column)]
  ELSE MatcherGroup(s, Substring(start, MatchEndAt(start)))

\* readNumber: the text it returns and the cursor it leaves, or the Error
\* it throws.
ReadNumber(s) == ReadNumberAt(s, MatcherFind(s.index))

\* next_token on a numeric start: the NUM_VALUE token of what readNumber
\* returned.
NumberToken(r) ==
  IF r.ok
  THEN Return(Symbol(NUM_VALUE, r.cur.line, r.cur.column - Len(r.value),
                     ParseDouble(r.value)), r.cur)
  ELSE Throw(r.err, r.cur)

(***************************************************************************)
(* The keyword table of next_token, in the order of its comparisons.       *)
(***************************************************************************)
Keywords ==
  << [word |-> <<"S","E","L","E","C","T">>, sym |-> SELECT, value |-> NullValue],
     [word |-> <<"D","I","S","T","I","N","C","T">>, sym |-> DISTINCT, value |-> NullValue],
     [word |-> <<"F","R","O","M">>, sym |-> FROM, value |-> NullValue],
     [word |-> <<"J","O","I","N">>, sym |-> JOIN, value |-> NullValue],
     [word |-> <<"O","N">>, sym |-> ON, value |-> NullValue],
     [word |-> <<"A","S">>, sym |-> AS, value |-> NullValue],
     [word |-> <<"W","H","E","R","E">>, sym |-> WHERE, value |-> NullValue],
     [word |-> <<"A","N","D">>, sym |-> AND, value |-> NullValue],
     [word |-> <<"O","R">>, sym |-> OR, value |-> NullValue],
     [word |-> <<"X","O","R">>, sym |-> XOR, value |-> NullValue],
     [word |-> <<"N","O","T">>, sym |-> NOT, value |-> NullValue],
     [word |-> <<"I","N">>, sym |-> sym_IN, value |-> NullValue],
     [word |-> <<"I","S">>, sym |-> IS, value |-> NullValue],
     [word |-> <<"N","U","L","L">>, sym |-> NULL, value |-> NullValue],
     [word |-> <<"B","E","T","W","E","E","N">>, sym |-> BETWEEN, value |-> NullValue],
     [word |-> <<"O","R","D","E","R">>, sym |-> ORDER, value |-> NullValue],
     [word |-> <<"B","Y">>, sym |-> sym_BY, value |-> NullValue],
     [word |-> <<"L","I","M","I","T">>, sym |-> LIMIT, value |-> NullValue],
     [word |-> <<"A","S","C">>, sym |-> ASCDESC, value |-> IntValue(1)],
     [word |-> <<"D","E","S","C">>, sym |-> ASCDESC, value |-> IntValue(-1)],
     [word |-> <<"L","I","K","E">>, sym |-> LIKE, value |-> NullValue],
     [word |-> <<"T","R","U","E">>, sym |-> BOOL_VALUE, value |-> BoolValue(TRUE)],
     [word |-> <<"F","A","L","S","E">>, sym |-> BOOL_VALUE, value |-> BoolValue(FALSE)] >>

\* The entry of the keyword table next_token returns for upper, or 0.
KeywordIndex(upper) ==
  IF \E k \in DOMAIN Keywords : Keywords[k].word = upper
  THEN CHOOSE k \in DOMAIN Keywords : Keywords[k].word = upper
  ELSE 0

\* The token of an identifier that ends at cursor s1: keyword k, or a
\* plain identifier when k = 0.
\* The identifier token carrying the upper-cased text.
WordToken_UpperPayload(identifier, k, s1) ==
  IF k # 0
  THEN Return(Symbol(Keywords[k].sym, s1.line, s1.column - Len(identifier),
                     Keywords[k].value), s1)
  ELSE Return(Symbol(IDENTIFIER, s1.line, s1.column - Len(identifier),
                     StrValue(ToUpperCase(identifier))), s1)

WordToken(identifier, k, s1) ==
  IF k # 0
  THEN Return(Symbol(Keywords[k].sym, s1.line, s1.column - Len(identifier),
                     Keywords[k].value), s1)
  ELSE Return(Symbol(IDENTIFIER, s1.line, s1.column - Len(identifier),
                     StrValue(identifier)), s1)

\* The qualified field identifier.right, whose right part ends at cursor s3.
FieldToken(identifier, right, s3) ==
  Return(Symbol(FIELD, s3.line, s3.column - Len(right) - 1,
                StrValue(identifier \o <<".">> \o right)), s3)

FieldFrom(identifier, s2, s3) ==
  FieldToken(identifier, Substring(s2.index, s3.index), s3)

\* The qualified-field test without the identifier-start test after the dot.
WordFrom_AnyAfterDot(s, s1, identifier) ==
  IF Peek(s1, ".")
  THEN FieldFrom(identifier, Advance(s1), ReadIdentifier(Advance(s1)))
  ELSE WordToken(identifier, KeywordIndex(ToUpperCase(identifier)), s1)

\* The keyword comparisons made before the qualified-field test.
WordFrom_KeywordFirst(s, s1, identifier) ==
  IF KeywordIndex(ToUpperCase(identifier)) # 0
  THEN WordToken(identifier, KeywordIndex(ToUpperCase(identifier)), s1)
  ELSE IF Peek(s1, ".") /\ IsIdentifierStart(PeekChar(s1, 1))
  THEN FieldFrom(identifier, Advance(s1), ReadIdentifier(Advance(s1)))
  ELSE WordToken(identifier, 0, s1)

\* next_token once readIdentifier has moved the cursor from s to s1.
WordFrom(s, s1, identifier) ==
  IF Peek(s1, ".") /\ IsIdentifierStart(PeekChar(s1, 1))
  THEN FieldFrom(identifier, Advance(s1), ReadIdentifier(Advance(s1)))
  ELSE WordToken(identifier, KeywordIndex(ToUpperCase(identifier)), s1)

WordTo(s, s1) == WordFrom(s, s1, Substring(s.index, s1.index))

\* next_token from an identifier-start character: a qualified field, a
\* keyword or an identifier.
ReadWord(s) == WordTo(s, ReadIdentifier(s))

\* The single-character punctuation of next_token.
Punctuation(c) ==
  CASE c = "(" -> LP
    [] c = ")" -> RP
    [] c = "," -> COMMA
    [] c = "." -> DOT
    [] c = "*" -> STAR
    [] OTHER -> -1

\* The end-of-input token counted as a consumed character.
EndOfInput_Advancing(s) ==
  Return(Symbol(EOF, s.line, s.column, NullValue),
         [index |-> s.index, line |-> s.line, column |-> s.column + 1])

\* The end-of-input token, returned with the cursor left where it is.
EndOfInput(s) == Return(Symbol(EOF, s.line, s.column, NullValue), s)

\* The first entry of OperatorTable that matchOperator accepts at s, or 0.
OperatorIndex(s) ==
  IF \E k \in DOMAIN OperatorTable : MatchOperator(s, k)
  THEN CHOOSE k \in DOMAIN OperatorTable :
         MatchOperator(s, k) /\ \A j \in 1..(k - 1) : ~MatchOperator(s, j)
  ELSE 0

\* The OPERATOR token of entry op, matchOperator having moved the cursor to s1.
OperatorToken(op, s1) ==
  Return(Symbol(OPERATOR, s1.line, s1.column - Len(op.text), StrValue(op.value)), s1)

\* A punctuation token, advance() having moved the cursor to s1.
\* The punctuation branch returning its token without the advance().
PunctuationToken_NoAdvance(id, s1) ==
  Return(Symbol(id, s1.line, s1.column - 1, NullValue),
         [s1 EXCEPT !.index = s1.index - 1, !.column = s1.column - 1])

\* The punctuation token numbered one too high.
PunctuationToken_OffByOne(id, s1) ==
  Return(Symbol(id + 1, s1.line, s1.column - 1, NullValue), s1)

PunctuationToken(id, s1) == Return(Symbol(id, s1.line, s1.column - 1, NullValue), s1)

\* next_token after skipWhitespace, with the cursor at s on the character
\* current.
Classify(s, current, k) ==
  IF s.index >= Len(input) THEN EndOfInput(s)
  ELSE IF current = "\"" THEN ReadString(s)
  ELSE IF Punctuation(current) # -1
  THEN PunctuationToken(Punctuation(current), Advance(s))
  ELSE IF k # 0
  THEN OperatorToken(OperatorTable[k], AdvanceN(s, Len(OperatorTable[k].text)))
  ELSE IF IsIdentifierStart(current) THEN ReadWord(s)
  ELSE IF IsNumberStart(s) THEN NumberToken(ReadNumber(s))
  ELSE Throw(IllegalCharacter(current, s.line, s.column), s)

Scan(s) == Classify(s, CharAt(s.index), OperatorIndex(s))

\* next_token called with the cursor at s0.
Next_token(s0) == Scan(SkipWhitespace(s0))

(***************************************************************************)
(* The scanner object: its fields, and a record of the calls made on it.   *)
(***************************************************************************)
Cursor == [index |-> index, line |-> line, column |-> column]

\* One call of lexer.next_token(): the fields move to where the call left
\* them, whether it returned or threw, and the call is recorded.
CallNextToken(r) ==
  /\ index' = r.cur.index
  /\ line' = r.cur.line
  /\ column' = r.cur.column
  /\ hist' = Append(hist, [from |-> Cursor, tok |-> r.tok, err |-> r.err, cur |-> r.cur])

(***************************************************************************)
(* SimpleParser.java.  pc is the position of parseQuery: "direct" when no  *)
(* parser drives the scanner, "done" once parseQuery has returned,         *)
(* "failed" once it has thrown a ParseException and "lexError" once an     *)
(* Error of the scanner has propagated out of it.                          *)
(***************************************************************************)
NoFound == [lit |-> "", sym |-> -1, paren |-> FALSE, value |-> NullValue]

NoParseError == [text |-> "", sep |-> "", found |-> NoFound]

\* tokenName() appending the value without the null test.
TokenName_PayloadAlways ==
  IF lookahead = NoToken
  THEN [lit |-> "<none>", sym |-> -1, paren |-> FALSE, value |-> NullValue]
  ELSE [lit |-> "#", sym |-> lookahead.sym, paren |-> TRUE,
        value |-> lookahead.value]

\* tokenName(): "<none>", or "#" + sym followed by " (" + value + ")" when
\* the lookahead has a value.
TokenName ==
  IF lookahead = NoToken
  THEN [lit |-> "<none>", sym |-> -1, paren |-> FALSE, value |-> NullValue]
  ELSE [lit |-> "#", sym |-> lookahead.sym,
        paren |-> lookahead.value # NullValue,
        value |-> lookahead.value]

Match(tokenType) == lookahead # NoToken /\ lookahead.sym = tokenType

\* next(): lookahead = lexer.next_token(); an Error thrown by the scanner
\* leaves the lookahead as it was and ends parseQuery.
\* next() catching the scanner's error and raising a ParseException instead.
Deliver_Wrapped(r, nextPc) ==
  /\ CallNextToken(r)
  /\ lookahead' = IF r.err = NoError THEN r.tok ELSE lookahead
  /\ pc' = IF r.err = NoError THEN nextPc ELSE "failed"
  /\ parseErr' = IF r.err = NoError THEN parseErr
                 ELSE [text |-> r.err.kind, sep |-> " but found: ",
                       found |-> TokenName]
  /\ UNCHANGED input
  /\ UNCHANGED <<storeVars, configVars>>

Deliver(r, nextPc) ==
  /\ CallNextToken(r)
  /\ lookahead' = IF r.err = NoError THEN r.tok ELSE lookahead
  /\ pc' = IF r.err = NoError THEN nextPc ELSE "lexError"
  /\ UNCHANGED <<input, parseErr>>
  /\ UNCHANGED <<storeVars, configVars>>

ParserNext(nextPc) == Deliver(Next_token(Cursor), nextPc)

\* throw new ParseException(text + " but found: " + tokenName())
Raise(text) ==
  /\ pc' = "failed"
  /\ parseErr' = [text |-> text, sep |-> " but found: ", found |-> TokenName]
  /\ UNCHANGED <<input, index, line, column, lookahead, hist>>
  /\ UNCHANGED <<storeVars, configVars>>

\* A test of the lookahead that consumes nothing.
Goto(nextPc) ==
  /\ pc' = nextPc
  /\ UNCHANGED <<input, index, line, column, lookahead, parseErr, hist>>
  /\ UNCHANGED <<storeVars, configVars>>

Expect(tokenType, errorMessage, nextPc) ==
  IF ~Match(tokenType) THEN Raise(errorMessage) ELSE ParserNext(nextPc)

ParseIdentifier(errorMessage, nextPc) ==
  IF Match(IDENTIFIER) \/ Match(FIELD) THEN ParserNext(nextPc)
  ELSE Raise(errorMessage)

\* parseOperand without the NULL keyword.
ParseOperand_NoNull(nextPc) ==
  IF \/ Match(IDENTIFIER) \/ Match(FIELD)
     \/ Match(STRING_VALUE) \/ Match(NUM_VALUE) \/ Match(BOOL_VALUE)
  THEN ParserNext(nextPc)
  ELSE Raise("Expected operand")

ParseOperand(nextPc) ==
  IF \/ Match(IDENTIFIER) \/ Match(FIELD)
     \/ Match(STRING_VALUE) \/ Match(NUM_VALUE) \/ Match(BOOL_VALUE) \/ Match(NULL)
  THEN ParserNext(nextPc)
  ELSE Raise("Expected operand")

ParseQuery_start == pc = "start" /\ ParserNext("expectSelect")

ParseQuery_expectSelect ==
  pc = "expectSelect" /\ Expect(SELECT, "Expected SELECT", "optDistinct")

ParseQuery_optDistinct ==
  pc = "optDistinct" /\ IF Match(DISTINCT) THEN ParserNext("selectList")
                        ELSE Goto("selectList")

\* parseSelectList with the first field checked under the after-comma text.
ParseSelectList_first_CommaText ==
  pc = "selectList" /\ IF Match(STAR) THEN ParserNext("expectFrom")
                       ELSE ParseIdentifier("Expected field name after comma",
                                            "selectMore")

ParseSelectList_first ==
  pc = "selectList" /\ IF Match(STAR) THEN ParserNext("expectFrom")
                       ELSE ParseIdentifier("Expected field name in SELECT list",
                                            "selectMore")

ParseSelectList_more ==
  pc = "selectMore" /\ IF Match(COMMA) THEN ParserNext("fieldAfterComma")
                       ELSE Goto("expectFrom")

ParseSelectList_afterComma ==
  pc = "fieldAfterComma" /\ ParseIdentifier("Expected field name after comma",
                                            "selectMore")

\* expect(FROM) pulling the next token whether or not FROM was matched.
ParseQuery_expectFrom_SkipsToken ==
  pc = "expectFrom" /\ ParserNext("tableName")

ParseQuery_expectFrom ==
  pc = "expectFrom" /\ Expect(FROM, "Expected FROM", "tableName")

ParseQuery_tableName ==
  pc = "tableName" /\ ParseIdentifier("Expected table name after FROM", "optWhere")

\* parseQuery returning when no WHERE follows the table name.
ParseQuery_optWhere_EarlyReturn ==
  pc = "optWhere" /\ IF Match(WHERE) THEN ParserNext("condLeft")
                     ELSE Goto("done")

ParseQuery_optWhere ==
  pc = "optWhere" /\ IF Match(WHERE) THEN ParserNext("condLeft")
                     ELSE Goto("expectEof")

\* parseCondition accepting end of input in place of a left operand.
ParseCondition_left_Lenient ==
  pc = "condLeft" /\ IF Match(EOF) THEN Goto("expectEof")
                     ELSE ParseOperand("condOp")

ParseCondition_left == pc = "condLeft" /\ ParseOperand("condOp")

ParseCondition_operator ==
  pc = "condOp" /\ Expect(OPERATOR, "Expected comparison operator", "condRight")

ParseCondition_right == pc = "condRight" /\ ParseOperand("condMore")

\* The connector loop of parseCondition without XOR.
ParseCondition_more_NoXor ==
  pc = "condMore" /\ IF Match(AND) \/ Match(OR)
                     THEN ParserNext("condLeft")
                     ELSE Goto("expectEof")

\* The connector loop of parseCondition continuing on AND only.
ParseCondition_more_AndOnly ==
  pc = "condMore" /\ IF Match(AND) THEN ParserNext("condLeft")
                     ELSE Goto("expectEof")

ParseCondition_more ==
  pc = "condMore" /\ IF Match(AND) \/ Match(OR) \/ Match(XOR)
                     THEN ParserNext("condLeft")
                     ELSE Goto("expectEof")

\* parseQuery returning without the final expect(EOF).
ParseQuery_expectEof_Skipped == pc = "expectEof" /\ Goto("done")

\* The final expect(EOF) with the message of the FROM check.
ParseQuery_expectEof_FromText ==
  pc = "expectEof" /\ Expect(EOF, "Expected FROM", "done")

ParseQuery_expectEof ==
  pc = "expectEof" /\ Expect(EOF, "Unexpected tokens after end of query", "done")

(***************************************************************************)
(* The scanner driven directly: a caller that keeps calling next_token().  *)
(***************************************************************************)
LexAlphabet == {"<", ">", "=", "\"", "\\", "\n", " ", "+", ".", "1", "e", "a"}

LexInputs == UNION {[1..n -> LexAlphabet] : n \in 0..MaxLen}

InitLexer ==
  /\ input \in LexInputs
  /\ index = 0
  /\ line = 0
  /\ column = 0
  /\ lookahead = NoToken
  /\ pc = "direct"
  /\ parseErr = NoParseError
  /\ hist = <<>>
  /\ EmptyStore
  /\ Constructed

Direct_next_token ==
  /\ pc = "direct"
  /\ Len(hist) < MaxCalls
  /\ CallNextToken(Next_token(Cursor))
  /\ UNCHANGED <<input, lookahead, pc, parseErr>>
  /\ UNCHANGED <<storeVars, configVars>>

NextLexer == Direct_next_token

SpecLexer == InitLexer /\ [][NextLexer]_vars

(***************************************************************************)
(* The scanner on words and numbers: every text over WordAlphabet up to    *)
(* MaxWordLen characters, and the texts the specification names.           *)
(***************************************************************************)
WordAlphabet == {"a", "e", "_", "-", "1", ".", " "}

\* -3.5e2, 1., 1e, .5, a.b, a.b.c, a .b, a. b, a.5, foo-bar, age-1
LexExamples ==
  { <<"-", "3", ".", "5", "e", "2">>,
    <<"1", ".">>,
    <<"1", "e">>,
    <<".", "5">>,
    <<"a", ".", "b">>,
    <<"a", ".", "b", ".", "c">>,
    <<"a", " ", ".", "b">>,
    <<"a", ".", " ", "b">>,
    <<"a", ".", "5">>,
    <<"f", "o", "o", "-", "b", "a", "r">>,
    <<"a", "g", "e", "-", "1">> }

WordInputs ==
  UNION {[1..n -> WordAlphabet] : n \in 0..MaxWordLen} \cup LexExamples

InitWords ==
  /\ input \in WordInputs
  /\ index = 0
  /\ line = 0
  /\ column = 0
  /\ lookahead = NoToken
  /\ pc = "direct"
  /\ parseErr = NoParseError
  /\ hist = <<>>
  /\ EmptyStore
  /\ Constructed

SpecWords == InitWords /\ [][NextLexer]_vars

(***************************************************************************)
(* The validator on queries: new SimpleParser(new Lexer(query)) followed   *)
(* by parseQuery(), as in ParserDemo.  A query is a sequence of lexemes    *)
(* separated by single spaces.                                             *)
(***************************************************************************)
Lexemes ==
  << <<"S","E","L","E","C","T">>,              \*  1
     <<"D","I","S","T","I","N","C","T">>,      \*  2
     <<"*">>,                                  \*  3
     <<",">>,                                  \*  4
     <<"F","R","O","M">>,                      \*  5
     <<"W","H","E","R","E">>,                  \*  6
     <<"A","N","D">>,                          \*  7
     <<"O","R">>,                              \*  8
     <<"X","O","R">>,                          \*  9
     <<"a","g","e">>,                          \* 10
     <<"t",".","i","d">>,                      \* 11
     <<">","=">>,                              \* 12
     <<"=">>,                                  \* 13
     <<"1","8">>,                              \* 14
     <<"\"","s","\"">>,                        \* 15
     <<"N","U","L","L">>,                      \* 16
     <<"T","R","U","E">>,                      \* 17
     <<"f","a","l","s","e">>,                  \* 18
     <<"L","I","M","I","T">>,                  \* 19
     <<"J","O","I","N">>,                      \* 20
     <<"O","N">>,                              \* 21
     <<"A","S">>,                              \* 22
     <<"N","O","T">>,                          \* 23
     <<"I","N">>,                              \* 24
     <<"I","S">>,                              \* 25
     <<"B","E","T","W","E","E","N">>,          \* 26
     <<"O","R","D","E","R">>,                  \* 27
     <<"B","Y">>,                              \* 28
     <<"L","I","K","E">>,                      \* 29
     <<"A","S","C">>,                          \* 30
     <<"d","e","s","c">>,                      \* 31
     <<"(">>,                                  \* 32
     <<")">>,                                  \* 33
     <<".">>,                                  \* 34
     <<"#">>,                                  \* 35
     <<"\"","a","b","c">>,                     \* 36
     <<"+",".">>,                              \* 37
     <<"n","a","m","e">>,                      \* 38
     <<"u","s","e","r","s">>,                  \* 39
     <<"1","0">>,                              \* 40
     <<"n","a","m","e",",">>,                  \* 41
     <<"u","s","e","r","s"," ","\n">>,         \* 42
     <<"s","e","l","e","c","t",".","f","r","o","m">>,  \* 43
     <<"t",".","l","i","m","i","t">> >>         \* 44

\* The lexemes tried at every position of a query.
Edits == {i \in DOMAIN Lexemes : Lexemes[i] \notin
            {<<"n","a","m","e">>, <<"u","s","e","r","s">>, <<"1","0">>,
             <<"n","a","m","e",",">>, <<"u","s","e","r","s"," ","\n">>,
             <<"s","e","l","e","c","t",".","f","r","o","m">>,
             <<"t",".","l","i","m","i","t">>}}

\* SELECT * FROM users
\* SELECT name , age FROM users WHERE age >= 18
\* SELECT * FROM users WHERE age >= 18
\* SELECT DISTINCT t.id FROM users WHERE age = "s" AND t.id >= NULL OR TRUE = 18
SeedQueries ==
  { <<1, 3, 5, 39>>,
    <<1, 38, 4, 10, 5, 39, 6, 10, 12, 14>>,
    <<1, 3, 5, 39, 6, 10, 12, 14>>,
    <<1, 2, 11, 5, 39, 6, 10, 13, 15, 7, 11, 12, 16, 8, 17, 13, 14>> }

\* SELECT * FROM users LIMIT 10
\* SELECT * FROM users WHERE name = "abc
\* SELECT name, age FROM users WHERE age >= 18
\* SELECT * FROM users followed by a blank and a newline
\* SELECT DISTINCT select.from , t.limit FROM t.limit
\*   WHERE select.from = t.limit AND NULL = TRUE
ExtraQueries ==
  { <<1, 3, 5, 39, 19, 40>>,
    <<1, 3, 5, 39, 6, 38, 13, 36>>,
    <<1, 41, 10, 5, 39, 6, 10, 12, 14>>,
    <<1, 3, 5, 42>>,
    <<1, 2, 43, 4, 44, 5, 44, 6, 43, 13, 44, 7, 16, 13, 17>> }

\* A seed with one lexeme replaced, inserted or deleted.
OneEdit(q) ==
  {[q EXCEPT ![i] = e] : i \in DOMAIN q, e \in Edits}
  \cup {SubSeq(q, 1, i) \o <<e>> \o SubSeq(q, i + 1, Len(q)) :
          i \in 0..Len(q), e \in Edits}
  \cup {SubSeq(q, 1, i - 1) \o SubSeq(q, i + 1, Len(q)) : i \in DOMAIN q}

Queries ==
  SeedQueries \cup ExtraQueries
  \cup UNION {OneEdit(q) : q \in SeedQueries}
  \cup UNION {[1..n -> Edits] : n \in 0..MaxToks}

RECURSIVE Join(_)
Join(q) ==
  IF q = <<>> THEN <<>>
  ELSE IF Len(q) = 1 THEN Lexemes[q[1]]
  ELSE Lexemes[q[1]] \o <<" ">> \o Join(Tail(q))

InitParser ==
  /\ \E q \in Queries : input = Join(q)
  /\ index = 0
  /\ line = 0
  /\ column = 0
  /\ lookahead = NoToken
  /\ pc = "start"
  /\ parseErr = NoParseError
  /\ hist = <<>>
  /\ EmptyStore
  /\ Constructed

NextParser ==
  \/ ParseQuery_start
  \/ ParseQuery_expectSelect
  \/ ParseQuery_optDistinct
  \/ ParseSelectList_first
  \/ ParseSelectList_more
  \/ ParseSelectList_afterComma
  \/ ParseQuery_expectFrom
  \/ ParseQuery_tableName
  \/ ParseQuery_optWhere
  \/ ParseCondition_left
  \/ ParseCondition_operator
  \/ ParseCondition_right
  \/ ParseCondition_more
  \/ ParseQuery_expectEof

SpecParser == InitParser /\ [][NextParser]_vars

\* Both uses of the scanner.
Init == InitLexer \/ InitParser

Next == NextLexer \/ NextParser

Spec == Init /\ [][Next]_vars

(***************************************************************************)
(* The scanner on string literals and blanks: every text over TextAlphabet *)
(* up to MaxTextLen characters, and longer literals with every escape.     *)
(***************************************************************************)
MaxTextLen == 4

TextAlphabet == {"\"", "\\", "t", "n", "r", "a", " ", "\t", "\r", "\n", "\f"}

\* "\t\n\r\"\\", then "a\a<tab><newline>" "x\, then <form feed><tab> "" <cr>
TextExamples ==
  { <<"\"", "\\", "t", "\\", "n", "\\", "r", "\\", "\"", "\\", "\\", "\"">>,
    <<"\"", "a", "\\", "a", "\t", "\n", "\"", " ", "\"", "x", "\\">>,
    <<"\f", "\t", " ", "\"", "\"", " ", "\r">> }

TextInputs ==
  UNION {[1..n -> TextAlphabet] : n \in 0..MaxTextLen} \cup TextExamples

InitText ==
  /\ input \in TextInputs
  /\ index = 0
  /\ line = 0
  /\ column = 0
  /\ lookahead = NoToken
  /\ pc = "direct"
  /\ parseErr = NoParseError
  /\ hist = <<>>
  /\ EmptyStore
  /\ Constructed

SpecText == InitText /\ [][NextLexer]_vars

\* The scanner on words and numbers and the validator on queries, each run
\* to its end.
InitRuns == InitWords \/ InitParser

SpecRuns == InitRuns /\ [][Next]_vars

(***************************************************************************)
(* The scanner and the validator on spellings of the keywords: every       *)
(* upper/lower-case spelling of every keyword, alone, before a number and  *)
(* as the left part of a qualified field, scanned directly; and queries    *)
(* with their keywords written in upper, lower and mixed case, validated.  *)
(***************************************************************************)
ToLowerChar(c) ==
  IF c \in Range(UpperCase)
  THEN LowerCase[CHOOSE i \in DOMAIN UpperCase : UpperCase[i] = c]
  ELSE c

RECURSIVE Spellings(_)
Spellings(word) ==
  IF word = <<>> THEN {<<>>}
  ELSE {<<c>> \o rest : c \in {ToUpperChar(word[1]), ToLowerChar(word[1])},
                        rest \in Spellings(Tail(word))}

KeywordSuffixes == {<<>>, <<" ", "1">>, <<".", "b">>}

KeywordInputs ==
  {w \o x : w \in UNION {Spellings(Keywords[k].word) : k \in DOMAIN Keywords},
            x \in KeywordSuffixes}

CaseModes == {"upper", "lower", "mixed"}

\* A lexeme in a case mode; mixed alternates lower and upper.
Cased(lexeme, mode) ==
  IF KeywordIndex(ToUpperCase(lexeme)) = 0 THEN lexeme
  ELSE [i \in DOMAIN lexeme |->
          IF mode = "upper" \/ (mode = "mixed" /\ i % 2 = 0)
          THEN ToUpperChar(lexeme[i])
          ELSE ToLowerChar(lexeme[i])]

RECURSIVE JoinCased(_, _)
JoinCased(q, mode) ==
  IF q = <<>> THEN <<>>
  ELSE IF Len(q) = 1 THEN Cased(Lexemes[q[1]], mode)
  ELSE Cased(Lexemes[q[1]], mode) \o <<" ">> \o JoinCased(Tail(q), mode)

\* The seeds, and
\* SELECT * FROM users LIMIT 10
\* SELECT * FROM users WHERE age >= 18 AND
\* SELECT age FROM users ORDER BY age DESC
\* SELECT * FROM users WHERE age IS NOT NULL
CaseQueries ==
  SeedQueries \cup
  { <<1, 3, 5, 39, 19, 40>>,
    <<1, 3, 5, 39, 6, 10, 12, 14, 7>>,
    <<1, 10, 5, 39, 27, 28, 10, 31>>,
    <<1, 3, 5, 39, 6, 10, 25, 23, 16>> }

\* (Ab),  .* aB  User_1 ASCx  truE Nulls
PayloadInputs ==
  { <<"(", "A", "b", ")", ",">>,
    <<".", "*", " ", "a", "B">>,
    <<"U", "s", "e", "r", "_", "1", " ", "A", "S", "C", "x">>,
    <<"t", "r", "u", "E", " ", "N", "u", "l", "l", "s">> }

InitKeywords ==
  /\ \/ input \in KeywordInputs \cup PayloadInputs /\ pc = "direct"
     \/ \E q \in CaseQueries, mode \in CaseModes :
          input = JoinCased(q, mode) /\ pc = "start"
  /\ index = 0
  /\ line = 0
  /\ column = 0
  /\ lookahead = NoToken
  /\ parseErr = NoParseError
  /\ hist = <<>>
  /\ EmptyStore
  /\ Constructed

SpecKeywords == InitKeywords /\ [][Next]_vars

(***************************************************************************)
(* MongoService on the three collections (mongo-service.js).  A document   *)
(* is kept by the fields the service reads; ObjectIds are numbers handed   *)
(* out in order.  One call of the service runs at a time; each await on    *)
(* the driver is a step that either takes effect or rejects.               *)
(***************************************************************************)
MaxObjectIds == 6
MaxServed == 4

InitMongo ==
  /\ input = <<>>
  /\ index = 0
  /\ line = 0
  /\ column = 0
  /\ lookahead = NoToken
  /\ pc = "service"
  /\ parseErr = NoParseError
  /\ hist = <<>>
  /\ metadataCollection = {}
  /\ normalizedCollection = {}
  /\ originalCollection = {}
  /\ call = Idle
  /\ insertResults = {}
  /\ nextObjectId = 1
  /\ served = 0
  /\ Constructed

At(op, at) == pc = "service" /\ call.op = op /\ call.at = at

\* A caller invoking insertAsyncAPIDocument.
Insert_call ==
  /\ At("none", "idle")
  /\ served < MaxServed
  /\ nextObjectId + 2 <= MaxObjectIds
  /\ call' = [Idle EXCEPT !.op = "insert", !.at = "metadataInsertOne"]
  /\ served' = served + 1
  /\ UNCHANGED <<metadataCollection, normalizedCollection, originalCollection,
                 insertResults, nextObjectId>>
  /\ UNCHANGED <<queryVars, configVars>>

\* metadataResult = await metadataCollection.insertOne({...})
Insert_metadataInsertOne ==
  /\ At("insert", "metadataInsertOne")
  /\ \E ok \in BOOLEAN :
       IF ok
       THEN /\ metadataCollection' = metadataCollection \cup
                 {[_id |-> nextObjectId, normalizedId |-> 0, originalId |-> 0]}
            /\ call' = [call EXCEPT !.metadataId = nextObjectId,
                                    !.at = "normalizedInsertOne"]
            /\ nextObjectId' = nextObjectId + 1
       ELSE /\ call' = [call EXCEPT !.at = "catch"]
            /\ UNCHANGED <<metadataCollection, nextObjectId>>
  /\ UNCHANGED <<normalizedCollection, originalCollection, insertResults, served>>
  /\ UNCHANGED <<queryVars, configVars>>

\* normalizedResult = await normalizedCollection.insertOne(normalizedDocument)
Insert_normalizedInsertOne ==
  /\ At("insert", "normalizedInsertOne")
  /\ \E ok \in BOOLEAN :
       IF ok
       THEN /\ normalizedCollection' = normalizedCollection \cup
                 {[_id |-> nextObjectId, metadataId |-> call.metadataId]}
            /\ call' = [call EXCEPT !.normalizedId = nextObjectId,
                                    !.at = "setNormalizedId"]
            /\ nextObjectId' = nextObjectId + 1
       ELSE /\ call' = [call EXCEPT !.at = "catch"]
            /\ UNCHANGED <<normalizedCollection, nextObjectId>>
  /\ UNCHANGED <<metadataCollection, originalCollection, insertResults, served>>
  /\ UNCHANGED <<queryVars, configVars>>

\* await metadataCollection.updateOne({_id: metadataId}, {$set: {normalizedId}})
Insert_setNormalizedId ==
  /\ At("insert", "setNormalizedId")
  /\ \E ok \in BOOLEAN :
       IF ok
       THEN /\ metadataCollection' =
                 {IF m._id = call.metadataId
                  THEN [m EXCEPT !.normalizedId = call.normalizedId]
                  ELSE m : m \in metadataCollection}
            /\ call' = [call EXCEPT !.at = "originalInsertOne"]
       ELSE /\ call' = [call EXCEPT !.at = "catch"]
            /\ UNCHANGED metadataCollection
  /\ UNCHANGED <<normalizedCollection, originalCollection, insertResults,
                 nextObjectId, served>>
  /\ UNCHANGED <<queryVars, configVars>>

\* originalResult = await originalCollection.insertOne(originalDocument);
\* buildOriginalDocument returns a document whenever normalizedDocument
\* exists.
Insert_originalInsertOne ==
  /\ At("insert", "originalInsertOne")
  /\ \E ok \in BOOLEAN :
       IF ok
       THEN /\ originalCollection' = originalCollection \cup
                 {[_id |-> nextObjectId, metadataId |-> call.metadataId,
                   normalizedId |-> call.normalizedId]}
            /\ call' = [call EXCEPT !.originalId = nextObjectId,
                                    !.at = "setOriginalId"]
            /\ nextObjectId' = nextObjectId + 1
       ELSE /\ call' = [call EXCEPT !.at = "catch"]
            /\ UNCHANGED <<originalCollection, nextObjectId>>
  /\ UNCHANGED <<metadataCollection, normalizedCollection, insertResults, served>>
  /\ UNCHANGED <<queryVars, configVars>>

\* await metadataCollection.updateOne({_id: metadataId}, {$set: {originalId}})
\* and the return of the identifiers.
Insert_setOriginalId ==
  /\ At("insert", "setOriginalId")
  /\ \E ok \in BOOLEAN :
       IF ok
       THEN /\ metadataCollection' =
                 {IF m._id = call.metadataId
                  THEN [m EXCEPT !.originalId = call.originalId]
                  ELSE m : m \in metadataCollection}
            /\ call' = [call EXCEPT !.at = "returned"]
            /\ insertResults' = insertResults \cup
                 {[insertedId |-> call.normalizedId,
                   metadataId |-> call.metadataId,
                   originalId |-> call.originalId]}
       ELSE /\ call' = [call EXCEPT !.at = "catch"]
            /\ UNCHANGED <<metadataCollection, insertResults>>
  /\ UNCHANGED <<normalizedCollection, originalCollection, nextObjectId, served>>
  /\ UNCHANGED <<queryVars, configVars>>

\* The documents the call has inserted when the catch block is entered:
\* the results whose insertedId is set.
Inserted ==
  {c \in {"original", "normalized", "metadata"} :
     \/ c = "original" /\ call.originalId # 0
     \/ c = "normalized" /\ call.normalizedId # 0
     \/ c = "metadata" /\ call.metadataId # 0}

\* A catch block that leaves the normalized document in place.
Insert_catch_KeepsNormalized ==
  /\ At("insert", "catch")
  /\ \E done \in SUBSET Inserted :
       /\ originalCollection' =
            IF "original" \in done
            THEN {o \in originalCollection : o._id # call.originalId}
            ELSE originalCollection
       /\ metadataCollection' =
            IF "metadata" \in done
            THEN {m \in metadataCollection : m._id # call.metadataId}
            ELSE metadataCollection
       /\ call' = [call EXCEPT !.at = "thrown", !.compensated = done]
  /\ UNCHANGED <<normalizedCollection, insertResults, nextObjectId, served>>
  /\ UNCHANGED <<queryVars, configVars>>

\* The catch block of insertAsyncAPIDocument: a deleteOne for each document
\* already inserted, each one's own failure swallowed, then the rethrow.
\* compensated keeps the deletes that took effect.
Insert_catch ==
  /\ At("insert", "catch")
  /\ \E done \in SUBSET Inserted :
       /\ originalCollection' =
            IF "original" \in done
            THEN {o \in originalCollection : o._id # call.originalId}
            ELSE originalCollection
       /\ normalizedCollection' =
            IF "normalized" \in done
            THEN {d \in normalizedCollection : d._id # call.normalizedId}
            ELSE normalizedCollection
       /\ metadataCollection' =
            IF "metadata" \in done
            THEN {m \in metadataCollection : m._id # call.metadataId}
            ELSE metadataCollection
       /\ call' = [call EXCEPT !.at = "thrown", !.compensated = done]
  /\ UNCHANGED <<insertResults, nextObjectId, served>>
  /\ UNCHANGED <<queryVars, configVars>>

\* A caller invoking deleteAsyncAPIDocument(id).
Delete_call ==
  /\ At("none", "idle")
  /\ served < MaxServed
  /\ \E id \in 1..nextObjectId :
       call' = [Idle EXCEPT !.op = "delete", !.at = "findOne", !.id = id]
  /\ served' = served + 1
  /\ UNCHANGED <<metadataCollection, normalizedCollection, originalCollection,
                 insertResults, nextObjectId>>
  /\ UNCHANGED <<queryVars, configVars>>

\* A findOne step that throws when there is no document.
Delete_findOne_ThrowsNotFound ==
  /\ At("delete", "findOne")
  /\ \E ok \in BOOLEAN :
       LET found == {d \in normalizedCollection : d._id = call.id}
       IN call' =
            IF ~ok THEN [call EXCEPT !.at = "thrown", !.rejected = TRUE]
            ELSE IF found = {} THEN [call EXCEPT !.at = "thrown"]
            ELSE [call EXCEPT !.metadataId = (CHOOSE d \in found : TRUE).metadataId,
                              !.at = "deleteOne"]
  /\ UNCHANGED <<metadataCollection, normalizedCollection, originalCollection,
                 insertResults, nextObjectId, served>>
  /\ UNCHANGED <<queryVars, configVars>>

\* document = await collection.findOne({_id}, {projection: {metadataId: 1}})
\* and the return of zero counts when there is none.  rejected marks a
\* throw that is the driver's rejection of an await.
Delete_findOne ==
  /\ At("delete", "findOne")
  /\ \E ok \in BOOLEAN :
       LET found == {d \in normalizedCollection : d._id = call.id}
       IN call' =
            IF ~ok THEN [call EXCEPT !.at = "thrown", !.rejected = TRUE]
            ELSE IF found = {} THEN [call EXCEPT !.at = "returned"]
            ELSE [call EXCEPT !.metadataId = (CHOOSE d \in found : TRUE).metadataId,
                              !.at = "deleteOne"]
  /\ UNCHANGED <<metadataCollection, normalizedCollection, originalCollection,
                 insertResults, nextObjectId, served>>
  /\ UNCHANGED <<queryVars, configVars>>

\* result = await collection.deleteOne({_id: objectId})
Delete_deleteOne ==
  /\ At("delete", "deleteOne")
  /\ \E ok \in BOOLEAN :
       LET found == {d \in normalizedCollection : d._id = call.id}
       IN IF ok
          THEN /\ normalizedCollection' = normalizedCollection \ found
               /\ call' = [call EXCEPT !.deletedCount = Cardinality(found),
                                       !.at = IF call.metadataId # 0
                                              THEN "metadataDeleteOne"
                                              ELSE "returned"]
          ELSE /\ call' = [call EXCEPT !.at = "thrown", !.rejected = TRUE]
               /\ UNCHANGED normalizedCollection
  /\ UNCHANGED <<metadataCollection, originalCollection, insertResults,
                 nextObjectId, served>>
  /\ UNCHANGED <<queryVars, configVars>>

\* metadataResult = await getMetadataCollection().deleteOne({_id: metadataId})
Delete_metadataDeleteOne ==
  /\ At("delete", "metadataDeleteOne")
  /\ \E ok \in BOOLEAN :
       LET found == {m \in metadataCollection : m._id = call.metadataId}
       IN IF ok
          THEN /\ metadataCollection' = metadataCollection \ found
               /\ call' = [call EXCEPT !.metadataDeletedCount = Cardinality(found),
                                       !.at = "originalDeleteMany"]
          ELSE /\ call' = [call EXCEPT !.at = "thrown", !.rejected = TRUE]
               /\ UNCHANGED metadataCollection
  /\ UNCHANGED <<normalizedCollection, originalCollection, insertResults,
                 nextObjectId, served>>
  /\ UNCHANGED <<queryVars, configVars>>

\* originalResult = await getOriginalCollection().deleteMany({metadataId})
\* and the return of the counts.
Delete_originalDeleteMany ==
  /\ At("delete", "originalDeleteMany")
  /\ \E ok \in BOOLEAN :
       LET found == {o \in originalCollection : o.metadataId = call.metadataId}
       IN IF ok
          THEN /\ originalCollection' = originalCollection \ found
               /\ call' = [call EXCEPT !.originalDeletedCount = Cardinality(found),
                                       !.at = "returned"]
          ELSE /\ call' = [call EXCEPT !.at = "thrown", !.rejected = TRUE]
               /\ UNCHANGED originalCollection
  /\ UNCHANGED <<metadataCollection, normalizedCollection, insertResults,
                 nextObjectId, served>>
  /\ UNCHANGED <<queryVars, configVars>>

\* The caller receiving the result or the error of the call.
Settle ==
  /\ pc = "service"
  /\ call.at \in {"returned", "thrown"}
  /\ call' = Idle
  /\ UNCHANGED <<metadataCollection, normalizedCollection, originalCollection,
                 insertResults, nextObjectId, served>>
  /\ UNCHANGED <<queryVars, configVars>>

NextMongo ==
  \/ Insert_call
  \/ Insert_metadataInsertOne
  \/ Insert_normalizedInsertOne
  \/ Insert_setNormalizedId
  \/ Insert_originalInsertOne
  \/ Insert_setOriginalId
  \/ Insert_catch
  \/ Delete_call
  \/ Delete_findOne
  \/ Delete_deleteOne
  \/ Delete_metadataDeleteOne
  \/ Delete_originalDeleteMany
  \/ Settle

SpecMongo == InitMongo /\ [][NextMongo]_vars

(***************************************************************************)
(* DatabaseConfig (config/database.js), the singleton that module.exports  *)
(* creates.  Callers run on one event loop: a call runs without            *)
(* interruption up to its await and resumes in a later step, when the      *)
(* driver has answered or rejected.                                        *)
(***************************************************************************)
InitDatabase ==
  /\ input = <<>>
  /\ index = 0
  /\ line = 0
  /\ column = 0
  /\ lookahead = NoToken
  /\ pc = "config"
  /\ parseErr = NoParseError
  /\ hist = <<>>
  /\ EmptyStore
  /\ Constructed

\* A caller may make its next call when its last one has ended.
Ready(t) ==
  /\ pc = "config"
  /\ tasks[t].at \in {"idle", "returned", "thrown"}
  /\ served < MaxServed

\* The record of a call that has ended; no is the number of the call
\* among the calls made on the singleton.
Ended(t, op, at, result) ==
  [tasks EXCEPT ![t] = [op |-> op, at |-> at,
                        no |-> IF tasks[t].at \in {"awaitConnect", "awaitClose"}
                               THEN tasks[t].no
                               ELSE served + 1,
                        awaiting |-> 0, result |-> result]]

Frame_config ==
  /\ UNCHANGED queryVars
  /\ UNCHANGED <<metadataCollection, normalizedCollection, originalCollection,
                 call, insertResults, nextObjectId>>

\* connect() up to `await this.client.connect()`: the early return of the
\* database, or a new MongoClient stored in this.client.
Connect_call(t) ==
  /\ Ready(t)
  /\ served' = served + 1
  /\ IF isConnected /\ db # 0
     THEN /\ tasks' = Ended(t, "connect", "returned", db)
          /\ UNCHANGED <<client, mongoClients>>
     ELSE /\ mongoClients' = Append(mongoClients, "constructed")
          /\ client' = Len(mongoClients) + 1
          /\ tasks' = [tasks EXCEPT ![t] = [op |-> "connect", at |-> "awaitConnect",
                                            no |-> served + 1,
                                            awaiting |-> Len(mongoClients) + 1,
                                            result |-> 0]]
  /\ UNCHANGED <<db, isConnected>>
  /\ Frame_config

\* connect() after the await: this.db = this.client.db(dbName), read from
\* the client the field holds now, and isConnected = true; a rejection,
\* or a null this.client, is logged and rethrown.  A client that close()
\* closed while it was connecting stays closed.
Connect_resume(t) ==
  /\ pc = "config"
  /\ tasks[t].op = "connect" /\ tasks[t].at = "awaitConnect"
  /\ \E ok \in BOOLEAN :
       IF ok
       THEN /\ mongoClients' =
                 [mongoClients EXCEPT ![tasks[t].awaiting] =
                    IF @ = "closed" THEN "closed" ELSE "connected"]
            /\ IF client = 0
               THEN /\ tasks' = Ended(t, "connect", "thrown", 0)
                    /\ UNCHANGED <<db, isConnected>>
               ELSE /\ db' = client
                    /\ isConnected' = TRUE
                    /\ tasks' = Ended(t, "connect", "returned", client)
       ELSE /\ tasks' = Ended(t, "connect", "thrown", 0)
            /\ UNCHANGED <<db, isConnected, mongoClients>>
  /\ UNCHANGED <<client, served>>
  /\ Frame_config

\* getDatabase()
GetDatabase(t) ==
  /\ Ready(t)
  /\ served' = served + 1
  /\ tasks' = IF ~isConnected \/ db = 0
              THEN Ended(t, "getDatabase", "thrown", 0)
              ELSE Ended(t, "getDatabase", "returned", db)
  /\ UNCHANGED <<client, db, isConnected, mongoClients>>
  /\ Frame_config

\* getCollection(name): getDatabase() and the collection of its result.
GetCollection(t) ==
  /\ Ready(t)
  /\ served' = served + 1
  /\ tasks' = IF ~isConnected \/ db = 0
              THEN Ended(t, "getCollection", "thrown", 0)
              ELSE Ended(t, "getCollection", "returned", db)
  /\ UNCHANGED <<client, db, isConnected, mongoClients>>
  /\ Frame_config

\* close() up to `await this.client.close()`, or its return when there is
\* no client.
Close_call(t) ==
  /\ Ready(t)
  /\ served' = served + 1
  /\ tasks' = IF client # 0
              THEN [tasks EXCEPT ![t] = [op |-> "close", at |-> "awaitClose",
                                         no |-> served + 1,
                                         awaiting |-> client, result |-> 0]]
              ELSE Ended(t, "close", "returned", 0)
  /\ UNCHANGED <<client, db, isConnected, mongoClients>>
  /\ Frame_config

\* A close() that resets the client and the database and leaves the flag.
Close_resume_KeepsFlag(t) ==
  /\ pc = "config"
  /\ tasks[t].op = "close" /\ tasks[t].at = "awaitClose"
  /\ \E ok \in BOOLEAN :
       IF ok
       THEN /\ mongoClients' = [mongoClients EXCEPT ![tasks[t].awaiting] = "closed"]
            /\ db' = 0
            /\ client' = 0
            /\ tasks' = Ended(t, "close", "returned", 0)
            /\ UNCHANGED isConnected
       ELSE /\ tasks' = Ended(t, "close", "thrown", 0)
            /\ UNCHANGED <<client, db, isConnected, mongoClients>>
  /\ UNCHANGED served
  /\ Frame_config

\* close() after the await: the three fields are reset; a rejection
\* leaves them.
Close_resume(t) ==
  /\ pc = "config"
  /\ tasks[t].op = "close" /\ tasks[t].at = "awaitClose"
  /\ \E ok \in BOOLEAN :
       IF ok
       THEN /\ mongoClients' = [mongoClients EXCEPT ![tasks[t].awaiting] = "closed"]
            /\ isConnected' = FALSE
            /\ db' = 0
            /\ client' = 0
            /\ tasks' = Ended(t, "close", "returned", 0)
       ELSE /\ tasks' = Ended(t, "close", "thrown", 0)
            /\ UNCHANGED <<client, db, isConnected, mongoClients>>
  /\ UNCHANGED served
  /\ Frame_config

\* isDatabaseConnected()
isDatabaseConnected == isConnected

NextDatabase ==
  \E t \in Callers :
    \/ Connect_call(t)
    \/ Connect_resume(t)
    \/ GetDatabase(t)
    \/ GetCollection(t)
    \/ Close_call(t)
    \/ Close_resume(t)

SpecDatabase == InitDatabase /\ [][NextDatabase]_vars

(***************************************************************************)
(* Properties of the scanner.  Positions are stated on the input text      *)
(* itself: offsets count characters from 0, lines and columns are those    *)
(* of the character at an offset.                                          *)
(***************************************************************************)
Blank == {" ", "\t", "\r", "\n", "\f"}

\* The offset of the first non-blank character at or after offset i, or
\* the length of the input when only blanks remain.
TextStart(i) ==
  IF i >= Len(input) THEN i
  ELSE CHOOSE p \in i..Len(input) :
         /\ \A k \in (i + 1)..p : input[k] \in Blank
         /\ p = Len(input) \/ input[p + 1] \notin Blank

\* Line of the character at offset p: the newlines before it.
LineOf(p) == Cardinality({k \in 1..p : input[k] = "\n"})

\* Column of the character at offset p: its distance from the line start.
ColumnOf(p) ==
  IF \E k \in 1..p : input[k] = "\n"
  THEN p - (CHOOSE k \in 1..p :
              input[k] = "\n" /\ \A m \in (k + 1)..p : input[m] # "\n")
  ELSE p

\* The text a call of next() consumed after the blanks it skipped.
Consumed(h) == SubSeq(input, TextStart(h.from.index) + 1, h.cur.index)

\* The mnemonic the specification gives for an operator text.
Mnemonic(text) ==
  CASE text = <<"=">> -> <<"$", "e", "q">>
    [] text = <<"<", ">">> -> <<"$", "n", "e">>
    [] text = <<">">> -> <<"$", "g", "t">>
    [] text = <<">", "=">> -> <<"$", "g", "t", "e">>
    [] text = <<"<">> -> <<"$", "l", "t">>
    [] text = <<"<", "=">> -> <<"$", "l", "t", "e">>

OperatorTexts ==
  {<<"=">>, <<"<", ">">>, <<">">>, <<">", "=">>, <<"<">>, <<"<", "=">>}

\* C2: a call of next() returns a comparison-operator token exactly when
\* the text at the cursor starts with =, < or >; the text it consumes is
\* then one of the six operators and the payload is that operator's
\* mnemonic ($eq, $ne, $gt, $gte, $lt, $lte).
C2_OperatorMapping ==
  \A i \in DOMAIN hist :
    LET h == hist[i]
        p == TextStart(h.from.index)
    IN /\ (h.tok.sym = OPERATOR) <=>
            (p < Len(input) /\ input[p + 1] \in {"=", "<", ">"})
       /\ h.tok.sym = OPERATOR =>
            /\ Consumed(h) \in OperatorTexts
            /\ h.tok.value = StrValue(Mnemonic(Consumed(h)))

\* <> and >= have been scanned, one after the other, as $ne and $gte.
C2_Witness ==
  \E i \in DOMAIN hist :
    /\ i + 1 \in DOMAIN hist
    /\ hist[i].tok.sym = OPERATOR
    /\ hist[i].tok.value = StrValue(<<"$", "n", "e">>)
    /\ hist[i + 1].tok.sym = OPERATOR
    /\ hist[i + 1].tok.value = StrValue(<<"$", "g", "t", "e">>)

\* The two characters at offset p, when there are two.
Pair(p) == IF p + 2 <= Len(input) THEN SubSeq(input, p + 1, p + 2) ELSE <<>>

\* Whether the operator character at offset q starts a two-character
\* operator.
Extends(q) == Pair(q) \in {<<"<", ">">>, <<">", "=">>, <<"<", "=">>}

\* C3: at an operator position the longest operator wins: <>, >= and <=
\* are consumed whole as one token, never split; =>, == and >< are not
\* operators, so the first character is scanned alone and the second
\* starts the next operator token, which is itself a one-character
\* operator unless it starts a two-character one.
C3_LongestMatch ==
  \A i \in DOMAIN hist :
    LET h == hist[i]
        p == TextStart(h.from.index)
    IN /\ Pair(p) \in {<<"<", ">">>, <<">", "=">>, <<"<", "=">>} =>
            /\ h.tok.sym = OPERATOR
            /\ h.cur.index = p + 2
            /\ h.tok.value = StrValue(Mnemonic(Pair(p)))
       /\ Pair(p) \in {<<"=", ">">>, <<"=", "=">>, <<">", "<">>} =>
            /\ h.tok.sym = OPERATOR
            /\ h.cur.index = p + 1
            /\ h.tok.value = StrValue(Mnemonic(<<input[p + 1]>>))
            /\ i + 1 \in DOMAIN hist =>
                 /\ hist[i + 1].tok.sym = OPERATOR
                 /\ hist[i + 1].tok.right = ColumnOf(p + 1)
                 /\ ~Extends(p + 1) =>
                      /\ hist[i + 1].cur.index = p + 2
                      /\ hist[i + 1].tok.value =
                           StrValue(Mnemonic(<<input[p + 2]>>))

\* <= has been scanned whole, and the => after it as = and then >.
C3_Witness ==
  /\ Len(hist) >= 3
  /\ Pair(0) = <<"<", "=">>
  /\ Pair(2) = <<"=", ">">>
  /\ hist[1].tok.value = StrValue(<<"$", "l", "t", "e">>)
  /\ hist[2].tok.value = StrValue(<<"$", "e", "q">>)
  /\ hist[3].tok.value = StrValue(<<"$", "g", "t">>)

\* C4: once next() has returned the end-of-input token, every later call
\* returns the same end-of-input token (same line and column), raises
\* nothing and leaves the cursor where it was.
C4_EofStable ==
  \A i, j \in DOMAIN hist :
    (i < j /\ hist[i].tok.sym = EOF) =>
      /\ hist[j].tok = hist[i].tok
      /\ hist[j].err = NoError
      /\ hist[j].from = hist[i].cur
      /\ hist[j].cur = hist[i].cur

\* After a token on the first line, end of input has been returned three
\* times on a later line.
C4_Witness ==
  \E i \in DOMAIN hist :
    /\ i > 1
    /\ i + 2 \in DOMAIN hist
    /\ hist[i].tok.sym = EOF
    /\ hist[i].tok.left > 0
    /\ hist[i + 2].tok.sym = EOF

\* The backslashes that immediately precede offset q inside the string
\* literal opened at offset p.
BackslashRun(p, q) ==
  IF \E k \in (p + 1)..(q - 1) : input[k + 1] # "\\"
  THEN q - 1 - (CHOOSE k \in (p + 1)..(q - 1) :
                  /\ input[k + 1] # "\\"
                  /\ \A m \in (k + 1)..(q - 1) : input[m + 1] = "\\")
  ELSE q - 1 - p

\* Whether the string literal opened at offset p has a closing quote: a
\* quote preceded by an even number of backslashes.
HasClosingQuote(p) ==
  \E q \in (p + 1)..(Len(input) - 1) :
    input[q + 1] = "\"" /\ BackslashRun(p, q) % 2 = 0

ParserStates ==
  {"start", "expectSelect", "optDistinct", "selectList", "selectMore",
   "fieldAfterComma", "expectFrom", "tableName", "optWhere", "condLeft",
   "condOp", "condRight", "condMore", "expectEof", "done", "failed",
   "lexError"}

\* C8: a string literal with no closing unescaped quote before the end of
\* the input (over several lines, ending in a lone backslash or in an
\* escaped quote) makes next() raise "Unterminated string literal" with
\* the line and column of the opening quote and return no token; the
\* validator then ends with that lexical error and no syntax error.
C8_UnterminatedString ==
  /\ \A i \in DOMAIN hist :
       LET h == hist[i]
           p == TextStart(h.from.index)
       IN (p < Len(input) /\ input[p + 1] = "\"" /\ ~HasClosingQuote(p)) =>
            /\ h.tok = NoToken
            /\ h.err = UnterminatedString(LineOf(p), ColumnOf(p))
  /\ (/\ pc \in ParserStates
      /\ hist # <<>>
      /\ hist[Len(hist)].err.kind = "Unterminated string literal") =>
       /\ pc = "lexError"
       /\ parseErr = NoParseError

\* SELECT * FROM users WHERE name = "abc has ended with the lexical error
\* at the opening quote, line 0 and column 33 of the query.
C8_Witness ==
  /\ pc = "lexError"
  /\ Len(hist) = Len(<<"SELECT", "*", "FROM", "users", "WHERE", "name", "=",
                       "abc">>)
  /\ SubSeq(input, Len(input) - 3, Len(input)) = <<"\"", "a", "b", "c">>
  /\ hist[Len(hist)].err =
       UnterminatedString(0, Len(input) - Len(<<"\"", "a", "b", "c">>))

\* C9: after next() has raised a lexical error no later call of next() on
\* the same scanner returns a token.
C9_LexicalErrorIsFinal ==
  \A i, j \in DOMAIN hist :
    (i < j /\ hist[i].err # NoError) => hist[j].tok = NoToken

\* Whether the text at offset p triggers numeric scanning: a digit, or a
\* sign followed by a digit or a dot.
NumericTriggered(p) ==
  /\ p < Len(input)
  /\ \/ IsDigit(input[p + 1])
     \/ /\ input[p + 1] \in {"+", "-"}
        /\ p + 1 < Len(input)
        /\ IsDigit(input[p + 2]) \/ input[p + 2] = "."

\* C10: when numeric scanning is triggered at the cursor and the text at
\* the cursor does not match the numeric grammar, next() raises "Invalid
\* numeric literal" at that position and returns no token, whatever
\* follows later in the input.
C10_MalformedNumberFails ==
  \A i \in DOMAIN hist :
    LET h == hist[i]
        p == TextStart(h.from.index)
    IN (NumericTriggered(p) /\ MatchEndAt(p) = -1) =>
         /\ h.tok = NoToken
         /\ h.err = InvalidNumeric(LineOf(p), ColumnOf(p))

(***************************************************************************)
(* Properties of the validator.  The accepted language is stated on        *)
(* sequences of token kinds, independently of the parser's control flow.   *)
(***************************************************************************)
IsName(kind) == kind \in {IDENTIFIER, FIELD}

IsOperand(kind) ==
  kind \in {IDENTIFIER, FIELD, STRING_VALUE, NUM_VALUE, BOOL_VALUE, NULL}

IsConnector(kind) == kind \in {AND, OR, XOR}

\* kinds[a .. a+n-1] is a select list: one STAR, or names separated by
\* single COMMAs.
IsSelectList(kinds, a, n) ==
  \/ n = 1 /\ kinds[a] = STAR
  \/ /\ n % 2 = 1
     /\ \A j \in 0..(n - 1) :
          IF j % 2 = 0 THEN IsName(kinds[a + j]) ELSE kinds[a + j] = COMMA

\* kinds[w .. w+n-1] is a WHERE clause: WHERE, then condition groups
\* operand OPERATOR operand separated by single connectors.
IsWhereClause(kinds, w, n) ==
  /\ n >= 4
  /\ n % 4 = 0
  /\ kinds[w] = WHERE
  /\ \A j \in 1..(n - 1) :
       CASE j % 4 = 1 -> IsOperand(kinds[w + j])
         [] j % 4 = 2 -> kinds[w + j] = OPERATOR
         [] j % 4 = 3 -> IsOperand(kinds[w + j])
         [] OTHER -> IsConnector(kinds[w + j])

\* The sequences of token kinds of the accepted queries.
InLanguage(kinds) ==
  /\ Len(kinds) >= 5
  /\ kinds[1] = SELECT
  /\ kinds[Len(kinds)] = EOF
  /\ \E d \in {0, 1}, n \in 1..Len(kinds) :
       LET a == 2 + d
           f == a + n
       IN /\ f + 2 <= Len(kinds)
          /\ d = 1 => kinds[2] = DISTINCT
          /\ IsSelectList(kinds, a, n)
          /\ kinds[f] = FROM
          /\ IsName(kinds[f + 1])
          /\ \/ f + 2 = Len(kinds)
             \/ IsWhereClause(kinds, f + 2, Len(kinds) - (f + 2))

\* One way to finish a query from every point of the grammar.
Completions ==
  { <<>>,
    <<EOF>>,
    <<IDENTIFIER, EOF>>,
    <<OPERATOR, IDENTIFIER, EOF>>,
    <<IDENTIFIER, OPERATOR, IDENTIFIER, EOF>>,
    <<FROM, IDENTIFIER, EOF>>,
    <<IDENTIFIER, FROM, IDENTIFIER, EOF>>,
    <<STAR, FROM, IDENTIFIER, EOF>>,
    <<SELECT, STAR, FROM, IDENTIFIER, EOF>> }

\* Whether kinds is a prefix of the kinds of some accepted query.
IsPrefixOfAccepted(kinds) == \E c \in Completions : InLanguage(kinds \o c)

\* The kinds of the tokens the scanner delivers from cursor cur up to the
\* end-of-input token, or up to -1 where it raises a lexical error.
RECURSIVE TokenKinds(_)
TokenKinds(cur) ==
  LET r == Next_token(cur)
  IN IF r.err # NoError THEN <<r.tok.sym>>
     ELSE IF r.tok.sym = EOF THEN <<EOF>>
     ELSE <<r.tok.sym>> \o TokenKinds(r.cur)

Stream == TokenKinds([index |-> 0, line |-> 0, column |-> 0])

\* The kinds of the tokens the validator has pulled so far.
Pulled == [i \in DOMAIN hist |-> hist[i].tok.sym]

Finished == pc \in {"done", "failed", "lexError"}

\* SELECT name, age FROM users WHERE age >= 18
ExampleQuery == Join(<<1, 41, 10, 5, 39, 6, 10, 12, 14>>)

\* C1: parseQuery completes without raising exactly when the kinds of the
\* tokens the scanner delivers are SELECT, optional DISTINCT, a STAR or
\* names separated by single COMMAs, FROM, one name, optionally WHERE with
\* condition groups separated by single AND/OR/XOR, then EOF; it has then
\* pulled exactly those tokens and the end-of-input token once more.  The
\* queries SELECT * FROM users and SELECT name, age FROM users WHERE
\* age >= 18 are accepted.
C1_AcceptedLanguage ==
  Finished =>
    LET stream == Stream
    IN /\ (pc = "done") <=> InLanguage(stream)
       /\ pc = "done" => Pulled = stream \o <<EOF>>
       /\ input \in {Join(<<1, 3, 5, 39>>), ExampleQuery} => pc = "done"

\* SELECT name, age FROM users WHERE age >= 18 has been accepted.
C1_Witness ==
  /\ pc = "done"
  /\ input = ExampleQuery
  /\ Pulled = <<SELECT, IDENTIFIER, COMMA, IDENTIFIER, FROM, IDENTIFIER,
                WHERE, IDENTIFIER, OPERATOR, NUM_VALUE, EOF, EOF>>

\* C5: when parseQuery raises a syntax error, the token named in the
\* error is the last token pulled from the scanner and the scanner's
\* cursor is where that pull left it; the tokens before it are a prefix
\* of some accepted query and the tokens up to and including it are not.
C5_FailFast ==
  pc = "failed" =>
    LET pulled == Pulled
    IN /\ hist # <<>>
       /\ lookahead = hist[Len(hist)].tok
       /\ parseErr.found.sym = hist[Len(hist)].tok.sym
       /\ Cursor = hist[Len(hist)].cur
       /\ pulled = SubSeq(Stream, 1, Len(hist))
       /\ IsPrefixOfAccepted(SubSeq(pulled, 1, Len(hist) - 1))
       /\ ~IsPrefixOfAccepted(pulled)

\* A query has failed at a connector in the middle of its WHERE clause,
\* with tokens left unread after it.
C5_Witness ==
  /\ pc = "failed"
  /\ parseErr.text = "Expected comparison operator"
  /\ IsConnector(lookahead.sym)
  /\ Len(hist) + 2 < Len(Stream)

Expectations ==
  {"Expected SELECT", "Expected FROM", "Expected table name after FROM",
   "Unexpected tokens after end of query",
   "Expected field name in SELECT list", "Expected field name after comma",
   "Expected comparison operator", "Expected operand"}

\* C6: every syntax error carries an expectation text, the separator
\* " but found: ", "#" and the kind number of the lookahead token, and
\* the payload in parentheses exactly when the lookahead carries one; the
\* placeholder <none> never appears, and no message exists unless
\* parseQuery has raised.
C6_MessageFormat ==
  /\ pc = "failed" =>
       /\ parseErr.text \in Expectations
       /\ parseErr.sep = " but found: "
       /\ parseErr.found.lit = "#"
       /\ parseErr.found.sym = lookahead.sym
       /\ lookahead.sym \in EOF..STRING_VALUE
       /\ parseErr.found.paren <=> (lookahead.value # NullValue)
       /\ parseErr.found.paren => parseErr.found.value = lookahead.value
  /\ pc # "failed" => parseErr = NoParseError

\* parseOperand has raised "Expected operand" on an operator token, whose
\* mnemonic the message carries in parentheses.
C6_Witness ==
  /\ pc = "failed"
  /\ parseErr.text = "Expected operand"
  /\ parseErr.found.sym = OPERATOR
  /\ parseErr.found.paren
  /\ parseErr.found.value = StrValue(<<"$", "g", "t", "e">>)

\* Token kinds the grammar never consumes.
UnusedKinds ==
  {JOIN, ON, AS, NOT, sym_IN, IS, BETWEEN, ORDER, sym_BY, LIMIT, LIKE,
   ASCDESC, LP, RP, DOT}

\* C7: a query the scanner tokenizes without error and whose tokens
\* include a kind the grammar never consumes ends in a syntax error; in
\* particular SELECT * FROM users LIMIT 10 does.
C7_UnusedKindsRejected ==
  Finished =>
    LET stream == Stream
    IN /\ (/\ stream[Len(stream)] = EOF
           /\ \E i \in DOMAIN stream : stream[i] \in UnusedKinds) =>
            /\ pc = "failed"
            /\ parseErr.text \in Expectations
       /\ input = Join(<<1, 3, 5, 39, 19, 40>>) => pc = "failed"

\* SELECT * FROM users LIMIT 10 has been rejected at LIMIT.
C7_Witness ==
  /\ pc = "failed"
  /\ input = Join(<<1, 3, 5, 39, 19, 40>>)
  /\ Stream = <<SELECT, STAR, FROM, IDENTIFIER, LIMIT, NUM_VALUE, EOF>>
  /\ parseErr.text = "Unexpected tokens after end of query"
  /\ parseErr.found.sym = LIMIT

(***************************************************************************)
(* Properties of numeric scanning and of words.                            *)
(***************************************************************************)

\* C11: a sign at the cursor starts a number only when the character
\* right after it is a digit; followed by anything else (a dot, a letter,
\* a blank, the end of input) next() raises "Illegal character" for the
\* sign at its position and returns no token.
C11_SignNeedsDigit ==
  \A i \in DOMAIN hist :
    LET h == hist[i]
        p == TextStart(h.from.index)
    IN (p < Len(input) /\ input[p + 1] \in {"+", "-"}) =>
         IF p + 1 < Len(input) /\ IsDigit(input[p + 2])
         THEN h.tok.sym = NUM_VALUE
         ELSE /\ h.tok = NoToken
              /\ h.err = IllegalCharacter(input[p + 1], LineOf(p), ColumnOf(p))

\* C12: a dot at the cursor directly followed by a digit is scanned as one
\* number token covering the dot and the digits; a dot followed by
\* anything else is the DOT token.
C12_DotDigitIsNumber ==
  \A i \in DOMAIN hist :
    LET h == hist[i]
        p == TextStart(h.from.index)
    IN (p < Len(input) /\ input[p + 1] = ".") =>
         IF p + 1 < Len(input) /\ IsDigit(input[p + 2])
         THEN /\ h.tok.sym = NUM_VALUE
              /\ h.cur.index >= p + 2
         ELSE /\ h.tok.sym = DOT
              /\ h.cur.index = p + 1

\* The call of next() made last, if any: hist grows by one call per step,
\* so a property of the last call in every state is one of every call.
LastCall == {i \in DOMAIN hist : i = Len(hist)}

AllDigits(t, a, b) == \A k \in a..b : IsDigit(t[k])

\* Whether the digits t[a..b] are followed to the end of t by nothing or
\* by an exponent: e or E, an optional sign, one or more digits.
EndsAfter(t, b) ==
  \/ b = Len(t)
  \/ /\ b + 2 <= Len(t)
     /\ t[b + 1] \in {"e", "E"}
     /\ \/ AllDigits(t, b + 2, Len(t))
        \/ /\ t[b + 2] \in {"-", "+"}
           /\ b + 3 <= Len(t)
           /\ AllDigits(t, b + 3, Len(t))

\* Whether the whole of t is a numeric literal: an optional sign, digits,
\* an optional dot, one or more digits, an optional exponent.
IsNumeric(t) ==
  \E sg \in {0, 1}, dot \in {0, 1}, i \in 0..Len(t), f \in 1..Len(t) :
    /\ sg = 1 => t[1] \in {"-", "+"}
    /\ sg <= i
    /\ AllDigits(t, sg + 1, i)
    /\ dot = 1 => (i + 1 <= Len(t) /\ t[i + 1] = ".")
    /\ i + dot + 1 <= f
    /\ AllDigits(t, i + dot + 1, f)
    /\ EndsAfter(t, f)

\* The length of the longest numeric literal that starts at offset p, or 0.
LongestNumeric(p) ==
  LET lens == {n \in 1..(Len(input) - p) :
                 IsNumeric(SubSeq(input, p + 1, p + n))}
  IN IF lens = {} THEN 0
     ELSE CHOOSE n \in lens : \A m \in lens : m <= n

\* C13: at a digit, or at a sign followed by a digit, next() returns one
\* number token that consumes exactly the longest prefix of the text that
\* is a numeric literal, with that text's value as payload; -3.5e2 is one
\* token of value -350, 1. is the number 1 then DOT, and 1e is the number
\* 1 then the identifier e.
C13_MaximalMunch ==
  /\ \A i \in LastCall :
       LET h == hist[i]
           p == TextStart(h.from.index)
       IN (/\ p < Len(input)
           /\ \/ IsDigit(input[p + 1])
              \/ /\ input[p + 1] \in {"-", "+"}
                 /\ p + 1 < Len(input)
                 /\ IsDigit(input[p + 2])) =>
            /\ h.err = NoError
            /\ h.tok.sym = NUM_VALUE
            /\ LongestNumeric(p) > 0
            /\ h.cur.index = p + LongestNumeric(p)
            /\ h.tok.value = ParseDouble(Consumed(h))
  /\ (input = <<"-", "3", ".", "5", "e", "2">> /\ hist # <<>>) =>
       /\ hist[1].cur.index = Len(input)
       /\ hist[1].tok.value = Normalize(-350, 0)
  /\ (input = <<"1", ".">> /\ Len(hist) >= 2) =>
       /\ Consumed(hist[1]) = <<"1">>
       /\ hist[2].tok.sym = DOT
  /\ (input = <<"1", "e">> /\ Len(hist) >= 2) =>
       /\ Consumed(hist[1]) = <<"1">>
       /\ hist[2].tok.sym = IDENTIFIER
       /\ hist[2].tok.value = StrValue(<<"e">>)

\* -3.5e2 has been scanned as one number token followed by end of input.
C13_Witness ==
  /\ input = <<"-", "3", ".", "5", "e", "2">>
  /\ Len(hist) = 2
  /\ hist[1].tok.sym = NUM_VALUE
  /\ hist[2].tok.sym = EOF

\* The characters of a word: its first character and its body.
IsWordStart(c) == IsLetter(c) \/ c = "_"

IsWordChar(c) == IsLetter(c) \/ IsDigit(c) \/ c \in {"_", "-"}

\* The offset where the run of word characters that starts at offset p
\* ends.
WordEnd(p) ==
  IF p >= Len(input) THEN p
  ELSE CHOOSE w \in p..Len(input) :
         /\ \A k \in (p + 1)..w : IsWordChar(input[k])
         /\ w = Len(input) \/ ~IsWordChar(input[w + 1])

\* Whether the text at offset p is a word, a dot and a word start, with
\* nothing between them.
IsQualified(p) ==
  /\ p < Len(input)
  /\ IsWordStart(input[p + 1])
  /\ WordEnd(p) + 2 <= Len(input)
  /\ input[WordEnd(p) + 1] = "."
  /\ IsWordStart(input[WordEnd(p) + 2])

\* C14: next() returns a FIELD token exactly when the text at the cursor
\* is a word, a dot and a word start with no blank between them; the token
\* covers the two words and carries their dotted text.  a.b is one FIELD;
\* a.b.c is FIELD a.b, DOT, IDENTIFIER c; a .b, a. b and a.5 are
\* IDENTIFIER, DOT and an identifier or a number.
C14_QualifiedField ==
  /\ \A i \in LastCall :
       LET h == hist[i]
           p == TextStart(h.from.index)
       IN /\ (h.tok.sym = FIELD) <=> IsQualified(p)
          /\ IsQualified(p) =>
               /\ h.cur.index = WordEnd(WordEnd(p) + 1)
               /\ h.tok.value = StrValue(Consumed(h))
  /\ (input = <<"a", ".", "b">> /\ hist # <<>>) =>
       /\ hist[1].tok.sym = FIELD
       /\ hist[1].tok.value = StrValue(<<"a", ".", "b">>)
       /\ hist[1].cur.index = Len(input)
  /\ (input = <<"a", ".", "b", ".", "c">> /\ Len(hist) >= 4) =>
       /\ SubSeq(Pulled, 1, 4) = <<FIELD, DOT, IDENTIFIER, EOF>>
       /\ hist[1].tok.value = StrValue(<<"a", ".", "b">>)
       /\ hist[3].tok.value = StrValue(<<"c">>)
  /\ (/\ input \in {<<"a", " ", ".", "b">>, <<"a", ".", " ", "b">>}
      /\ Len(hist) >= 4) =>
       SubSeq(Pulled, 1, 4) = <<IDENTIFIER, DOT, IDENTIFIER, EOF>>
  /\ (input = <<"a", ".", "5">> /\ Len(hist) >= 4) =>
       SubSeq(Pulled, 1, 4) = <<IDENTIFIER, DOT, NUM_VALUE, EOF>>

\* a.b.c has been scanned to its end: FIELD a.b, DOT, IDENTIFIER c.
C14_Witness ==
  /\ input = <<"a", ".", "b", ".", "c">>
  /\ Len(hist) = 4
  /\ hist[1].tok.sym = FIELD
  /\ hist[2].tok.sym = DOT
  /\ hist[3].tok.sym = IDENTIFIER
  /\ hist[4].tok.sym = EOF

\* The keywords with the kind and payload the specification gives them.
KeywordKinds ==
  { <<<<"S","E","L","E","C","T">>, SELECT, NullValue>>,
    <<<<"D","I","S","T","I","N","C","T">>, DISTINCT, NullValue>>,
    <<<<"F","R","O","M">>, FROM, NullValue>>,
    <<<<"J","O","I","N">>, JOIN, NullValue>>,
    <<<<"O","N">>, ON, NullValue>>,
    <<<<"A","S">>, AS, NullValue>>,
    <<<<"W","H","E","R","E">>, WHERE, NullValue>>,
    <<<<"A","N","D">>, AND, NullValue>>,
    <<<<"O","R">>, OR, NullValue>>,
    <<<<"X","O","R">>, XOR, NullValue>>,
    <<<<"N","O","T">>, NOT, NullValue>>,
    <<<<"I","N">>, sym_IN, NullValue>>,
    <<<<"I","S">>, IS, NullValue>>,
    <<<<"N","U","L","L">>, NULL, NullValue>>,
    <<<<"B","E","T","W","E","E","N">>, BETWEEN, NullValue>>,
    <<<<"O","R","D","E","R">>, ORDER, NullValue>>,
    <<<<"B","Y">>, sym_BY, NullValue>>,
    <<<<"L","I","M","I","T">>, LIMIT, NullValue>>,
    <<<<"L","I","K","E">>, LIKE, NullValue>>,
    <<<<"T","R","U","E">>, BOOL_VALUE, BoolValue(TRUE)>>,
    <<<<"F","A","L","S","E">>, BOOL_VALUE, BoolValue(FALSE)>>,
    <<<<"A","S","C">>, ASCDESC, IntValue(1)>>,
    <<<<"D","E","S","C">>, ASCDESC, IntValue(-1)>> }

\* Whether text is word written in some mix of upper and lower case.
IsSpelling(text, word) ==
  /\ Len(text) = Len(word)
  /\ \A i \in DOMAIN word : text[i] \in {word[i], ToLowerChar(word[i])}

\* C15: a word at the cursor that is some upper/lower-case spelling of one
\* of the 23 keywords, and is not the left part of a qualified field,
\* scans to that keyword's kind and payload whatever its case; a query
\* with its keywords in upper, lower or mixed case validates exactly when
\* the query itself is one of the accepted ones.
C15_KeywordCase ==
  /\ \A i \in DOMAIN hist :
       LET h == hist[i]
           p == TextStart(h.from.index)
       IN (p < Len(input) /\ IsWordStart(input[p + 1]) /\ ~IsQualified(p)) =>
            \A kw \in KeywordKinds :
              IsSpelling(SubSeq(input, p + 1, WordEnd(p)), kw[1]) =>
                /\ h.err = NoError
                /\ h.tok.sym = kw[2]
                /\ h.tok.value = kw[3]
                /\ h.cur.index = WordEnd(p)
  /\ (pc \in ParserStates /\ Finished) =>
       \A q \in CaseQueries, mode \in CaseModes :
         input = JoinCased(q, mode) => ((pc = "done") <=> (q \in SeedQueries))

\* The longest seed query, its keywords in mixed case, has been accepted.
C15_Witness ==
  /\ pc = "done"
  /\ SubSeq(input, 1, Len(<<"s", "E", "l", "E", "c", "T">>)) =
       <<"s", "E", "l", "E", "c", "T">>
  /\ \E i \in DOMAIN hist : hist[i].tok.sym = DISTINCT
  /\ \E i \in DOMAIN hist : hist[i].tok.value = BoolValue(TRUE)

\* C16: a word at the cursor is consumed over all the letters, digits,
\* underscores and hyphens that follow its first character, so the token
\* ends where that run ends (or, for a qualified field, where the run
\* after the dot ends); a word that is no keyword is one IDENTIFIER token
\* carrying the whole run.  foo-bar and age-1 are each one IDENTIFIER
\* followed by end of input.
C16_GreedyIdentifier ==
  /\ \A i \in LastCall :
       LET h == hist[i]
           p == TextStart(h.from.index)
           text == SubSeq(input, p + 1, WordEnd(p))
       IN (p < Len(input) /\ IsWordStart(input[p + 1])) =>
            /\ h.err = NoError
            /\ h.cur.index =
                 IF IsQualified(p) THEN WordEnd(WordEnd(p) + 1) ELSE WordEnd(p)
            /\ (/\ ~IsQualified(p)
                /\ \A kw \in KeywordKinds : ~IsSpelling(text, kw[1])) =>
                 /\ h.tok.sym = IDENTIFIER
                 /\ h.tok.value = StrValue(text)
  /\ (/\ input \in {<<"f", "o", "o", "-", "b", "a", "r">>,
                    <<"a", "g", "e", "-", "1">>}
      /\ Len(hist) >= 2) =>
       /\ hist[1].tok.sym = IDENTIFIER
       /\ hist[1].tok.value = StrValue(input)
       /\ hist[2].tok.sym = EOF

\* age-1 has been scanned as one IDENTIFIER and then end of input.
C16_Witness ==
  /\ input = <<"a", "g", "e", "-", "1">>
  /\ Len(hist) = 2
  /\ hist[1].tok.value = StrValue(<<"a", "g", "e", "-", "1">>)
  /\ hist[2].tok.sym = EOF

\* Whether cursor cur is at the line and column of its offset: the line is
\* the number of newlines before the offset and the column the number of
\* characters after the last of them.
IsTracked(cur) ==
  /\ cur.index \in 0..Len(input)
  /\ cur.line = LineOf(cur.index)
  /\ cur.column = ColumnOf(cur.index)

\* C17: before and after every call of next(), returning or raising, the
\* scanner's line is the number of newlines in the consumed text and its
\* column the number of consumed characters after the last newline; the
\* cursor only moves forward.
C17_PositionTracking ==
  /\ IsTracked(Cursor)
  /\ \A i \in LastCall :
       /\ IsTracked(hist[i].from)
       /\ IsTracked(hist[i].cur)
       /\ hist[i].from.index <= hist[i].cur.index

\* A call has raised after consuming text over more than one line, leaving
\* the cursor past the start of a later line.
C17_Witness ==
  /\ hist # <<>>
  /\ hist[Len(hist)].err # NoError
  /\ hist[Len(hist)].from.index < index
  /\ line > 0
  /\ column > 0

\* A step of the validator pulls no token, or pulls one token that
\* becomes the lookahead unless the scanner raised.
PullsAtMostOne ==
  pc \in ParserStates =>
    \/ hist' = hist /\ lookahead' = lookahead
    \/ /\ Len(hist') = Len(hist) + 1
       /\ SubSeq(hist', 1, Len(hist)) = hist
       /\ hist'[Len(hist')].err = NoError =>
            lookahead' = hist'[Len(hist')].tok

\* C18: whenever parseQuery has returned normally the scanner's cursor is
\* at the end of the input and the lookahead is the EOF token; the tokens
\* pulled are the scanner's tokens in order, each scanned from where the
\* one before ended, with one further EOF after the first; and every step
\* of the validator pulls at most one token, which becomes the lookahead.
C18_Drained ==
  /\ [](pc = "done" =>
          /\ index = Len(input)
          /\ lookahead.sym = EOF
          /\ lookahead = hist[Len(hist)].tok
          /\ Pulled = Stream \o <<EOF>>
          /\ hist[1].from.index = 0
          /\ \A i \in 2..Len(hist) : hist[i].from = hist[i - 1].cur)
  /\ [][PullsAtMostOne]_vars

\* SELECT * FROM users followed by a blank and a newline has been
\* accepted, with the cursor after the newline.
C18_Witness ==
  /\ pc = "done"
  /\ Pulled = <<SELECT, STAR, FROM, IDENTIFIER, EOF, EOF>>
  /\ index = Len(input)
  /\ line > 0

\* Whether kinds, followed by EOF, is an accepted query: a query that is
\* structurally complete.
IsComplete(kinds) == InLanguage(kinds \o <<EOF>>)

\* Whether a token of kind kind may follow the complete query kinds: EOF,
\* WHERE directly after the table name, a connector after a condition
\* group.
MayFollow(kinds, kind) ==
  \/ kind = EOF
  \/ kind = WHERE /\ \A i \in DOMAIN kinds : kinds[i] # WHERE
  \/ IsConnector(kind) /\ \E i \in DOMAIN kinds : kinds[i] = WHERE

\* C19: when the tokens pulled before the last one form a complete query
\* and the last token pulled is none of the tokens that may follow it, the
\* validator ends with the syntax error "Unexpected tokens after end of
\* query" naming that token; and it raises that error in no other case.
C19_TrailingToken ==
  (Finished /\ hist # <<>> /\ hist[Len(hist)].err = NoError) =>
    LET n == Len(hist)
        before == SubSeq(Pulled, 1, n - 1)
        trailing == IsComplete(before) /\ ~MayFollow(before, Pulled[n])
    IN /\ trailing =>
            /\ pc = "failed"
            /\ parseErr.text = "Unexpected tokens after end of query"
            /\ parseErr.found.sym = Pulled[n]
            /\ parseErr.found.value = hist[n].tok.value
       /\ (/\ pc = "failed"
           /\ parseErr.text = "Unexpected tokens after end of query") =>
            trailing

\* A query has failed on a second WHERE after a complete condition group.
C19_Witness ==
  /\ pc = "failed"
  /\ parseErr.text = "Unexpected tokens after end of query"
  /\ parseErr.found.sym = WHERE
  /\ \E i \in DOMAIN hist : i < Len(hist) /\ hist[i].tok.sym = WHERE

\* C20: when the validator has reached WHERE after the table name, or a
\* connector after a condition group, and the token after it is not an
\* operand, it ends with the syntax error "Expected operand" naming that
\* token; SELECT * FROM users WHERE age >= 18 AND fails naming the EOF
\* token, kind 0, without payload.
C20_DanglingConnector ==
  /\ (Finished /\ Len(hist) >= 2 /\ hist[Len(hist)].err = NoError) =>
       LET n == Len(hist)
       IN (/\ IsPrefixOfAccepted(SubSeq(Pulled, 1, n - 1))
           /\ Pulled[n - 1] = WHERE \/ IsConnector(Pulled[n - 1])
           /\ ~IsOperand(Pulled[n])) =>
            /\ pc = "failed"
            /\ parseErr.text = "Expected operand"
            /\ parseErr.found.sym = Pulled[n]
            /\ parseErr.found.value = hist[n].tok.value
  /\ (Finished /\ input = Join(<<1, 3, 5, 39, 6, 10, 12, 14, 7>>)) =>
       /\ pc = "failed"
       /\ parseErr.text = "Expected operand"
       /\ parseErr.found.lit = "#"
       /\ parseErr.found.sym = EOF
       /\ ~parseErr.found.paren

\* SELECT * FROM users WHERE age >= 18 AND has failed on the end of input.
C20_Witness ==
  /\ pc = "failed"
  /\ input = Join(<<1, 3, 5, 39, 6, 10, 12, 14, 7>>)
  /\ parseErr.text = "Expected operand"
  /\ lookahead.sym = EOF
  /\ hist[Len(hist) - 1].tok.sym = AND

\* Whether the tokens pulled are SELECT, an optional DISTINCT, and one
\* more token that does not start a select list.
IsBadSelectStart(kinds) ==
  /\ Len(kinds) \in {2, 3}
  /\ kinds[1] = SELECT
  /\ Len(kinds) = 3 => kinds[2] = DISTINCT
  /\ kinds[Len(kinds)] \notin {STAR, IDENTIFIER, FIELD}
  /\ Len(kinds) = 2 => kinds[2] # DISTINCT

\* C21: when the token after SELECT, or after SELECT DISTINCT, is neither
\* * nor an identifier or field, the validator ends with the syntax error
\* "Expected field name in SELECT list" naming that token, and it raises
\* that error in no other case; SELECT FROM users gives "#9" (FROM) with
\* no payload.
C21_SelectListStart ==
  /\ (Finished /\ hist # <<>> /\ hist[Len(hist)].err = NoError) =>
       /\ IsBadSelectStart(Pulled) =>
            /\ pc = "failed"
            /\ parseErr.text = "Expected field name in SELECT list"
            /\ parseErr.sep = " but found: "
            /\ parseErr.found.lit = "#"
            /\ parseErr.found.sym = Pulled[Len(hist)]
            /\ parseErr.found.value = hist[Len(hist)].tok.value
       /\ (/\ pc = "failed"
           /\ parseErr.text = "Expected field name in SELECT list") =>
            IsBadSelectStart(Pulled)
  /\ (Finished /\ input = Join(<<1, 5, 39>>)) =>
       /\ pc = "failed"
       /\ parseErr.text = "Expected field name in SELECT list"
       /\ parseErr.found.sym = FROM
       /\ ~parseErr.found.paren

\* SELECT FROM users has failed on FROM.
C21_Witness ==
  /\ pc = "failed"
  /\ input = Join(<<1, 5, 39>>)
  /\ Pulled = <<SELECT, FROM>>
  /\ parseErr.found.sym = FROM

\* kinds with every connector replaced by AND: two queries that differ
\* only in their connectors have the same image.
SameConnector(kinds) ==
  [i \in DOMAIN kinds |-> IF IsConnector(kinds[i]) THEN AND ELSE kinds[i]]

\* C22: whether the validator accepts a query, and the token at which it
\* fails, depend on the query's tokens only up to which of AND, OR and
\* XOR each connector is: the query is accepted exactly when it is an
\* accepted query with AND for every connector, and it fails at the first
\* token where it stops being a prefix of one.  A parenthesis anywhere
\* after WHERE makes the query fail.
C22_ConnectorsInterchangeable ==
  Finished =>
    LET stream == Stream
        pulled == Pulled
    IN /\ (pc = "done") <=> InLanguage(SameConnector(stream))
       /\ pc = "failed" =>
            /\ IsPrefixOfAccepted(
                 SameConnector(SubSeq(pulled, 1, Len(pulled) - 1)))
            /\ ~IsPrefixOfAccepted(SameConnector(pulled))
       /\ (/\ stream[Len(stream)] = EOF
           /\ \E i, j \in DOMAIN stream :
                i < j /\ stream[i] = WHERE /\ stream[j] \in {LP, RP}) =>
            pc = "failed"

\* A query whose WHERE clause chains three condition groups with XOR and
\* OR has been accepted.
C22_Witness ==
  /\ pc = "done"
  /\ \E i, j \in DOMAIN hist :
       /\ i < j
       /\ hist[i].tok.sym = XOR
       /\ hist[j].tok.sym = OR

\* The scan of the whole input ends in a lexical error rather than in the
\* end-of-input token.
ScanFails == LET stream == Stream IN stream[Len(stream)] = NoToken.sym

\* The kinds of the tokens that precede the lexical error.
BeforeError == LET stream == Stream IN SubSeq(stream, 1, Len(stream) - 1)

\* The lexical error the scanner raises when the whole input is scanned.
RECURSIVE ErrorFrom(_)
ErrorFrom(cur) ==
  LET r == Next_token(cur)
  IN IF r.err # NoError \/ r.tok.sym = EOF THEN r.err ELSE ErrorFrom(r.cur)

\* C23: when the scan of the query raises a lexical error at token j and
\* the tokens before it are a prefix of an accepted query, parseQuery ends
\* with that lexical error, unchanged and not turned into a syntax error;
\* when the tokens before it stop being such a prefix at token k < j,
\* parseQuery ends with the syntax error for token k and never pulls as
\* far as the lexical error.
C23_LexicalErrorPropagates ==
  (Finished /\ ScanFails) =>
    LET before == BeforeError
        bad == {n \in DOMAIN before :
                  ~IsPrefixOfAccepted(SubSeq(before, 1, n))}
    IN IF bad = {}
       THEN /\ pc = "lexError"
            /\ parseErr = NoParseError
            /\ Len(hist) = Len(before) + 1
            /\ hist[Len(hist)].err =
                 ErrorFrom([index |-> 0, line |-> 0, column |-> 0])
            /\ \A i \in 1..Len(before) : hist[i].err = NoError
       ELSE \E k \in bad :
              /\ \A n \in bad : k <= n
              /\ pc = "failed"
              /\ Len(hist) = k
              /\ parseErr.found.sym = before[k]
              /\ \A i \in DOMAIN hist : hist[i].err = NoError

\* SELECT * FROM users WHERE name = "abc has ended with the scanner's
\* unterminated-string error after seven tokens.
C23_Witness ==
  /\ pc = "lexError"
  /\ input = Join(<<1, 3, 5, 39, 6, 38, 13, 36>>)
  /\ Len(hist) = 8
  /\ hist[8].err.kind = "Unterminated string literal"
  /\ parseErr = NoParseError

\* A query with a grammar violation before its lexical error has ended
\* with the syntax error.
C23_WitnessEarlier ==
  /\ pc = "failed"
  /\ ScanFails
  /\ Len(hist) < Len(BeforeError)

\* A step never moves the scanner's index backwards, and a step of the
\* validator that pulls a token pulls exactly one, scanned from where the
\* scanner stood, and only once the lookahead (the token pulled before)
\* has been matched: the tokens pulled so far are then a prefix of an
\* accepted query.
PullsAfterMatch ==
  /\ index' >= index
  /\ (pc \in ParserStates /\ hist' # hist) =>
       /\ Len(hist') = Len(hist) + 1
       /\ SubSeq(hist', 1, Len(hist)) = hist
       /\ hist'[Len(hist')].from.index = index
       /\ hist # <<>> =>
            /\ lookahead = hist[Len(hist)].tok
            /\ IsPrefixOfAccepted(Pulled)

\* Every call of next_token ends at or after the index where it began and
\* begins where the call before it ended, and every token pulled by the
\* validator except the last one has been matched by the grammar.
NoPushback ==
  /\ \A i \in DOMAIN hist :
       /\ hist[i].from.index <= hist[i].cur.index
       /\ i > 1 => hist[i].from = hist[i - 1].cur
  /\ hist # <<>> => index = hist[Len(hist)].cur.index
  /\ (pc \in ParserStates /\ hist # <<>>) =>
       IsPrefixOfAccepted(SubSeq(Pulled, 1, Len(hist) - 1))

\* C24: the scanner's index never decreases and no token is pushed back;
\* at every instant of parseQuery the tokens pulled from the scanner are
\* at most one more than the tokens the grammar has matched.
C24_ForwardOnly == []NoPushback /\ [][PullsAfterMatch]_vars

\* The validator has matched SELECT, a field and FROM and holds the table
\* name, the fourth token pulled, as its lookahead.
C24_Witness ==
  /\ pc = "tableName"
  /\ Len(hist) = 4
  /\ Pulled = <<SELECT, IDENTIFIER, FROM, IDENTIFIER>>
  /\ lookahead = hist[4].tok
  /\ index > hist[3].cur.index

\* The kinds of the keywords other than ASC, DESC, TRUE and FALSE, of the
\* punctuation and of the end of input.
BareKinds ==
  {EOF, LP, RP, COMMA, DOT, STAR, LIKE} \cup
  {kw[2] : kw \in {k \in KeywordKinds : k[3] = NullValue}}

\* C25: a token of kind 25 is ASC with the integer 1 or DESC with the
\* integer -1, a token of kind 27 is TRUE with the boolean true or FALSE
\* with the boolean false, an identifier token carries its source text in
\* the case it was written in, and the other keywords, the punctuation
\* and the end-of-input token carry no payload.
C25_Payloads ==
  \A i \in DOMAIN hist :
    LET h == hist[i]
        text == Substring(TextStart(h.from.index), h.cur.index)
    IN h.err = NoError =>
         /\ h.tok.sym \in BareKinds => h.tok.value = NullValue
         /\ h.tok.sym = ASCDESC =>
              \/ IsSpelling(text, <<"A", "S", "C">>) /\ h.tok.value = IntValue(1)
              \/ /\ IsSpelling(text, <<"D", "E", "S", "C">>)
                 /\ h.tok.value = IntValue(-1)
         /\ h.tok.sym = BOOL_VALUE =>
              \/ /\ IsSpelling(text, <<"T", "R", "U", "E">>)
                 /\ h.tok.value = BoolValue(TRUE)
              \/ /\ IsSpelling(text, <<"F", "A", "L", "S", "E">>)
                 /\ h.tok.value = BoolValue(FALSE)
         /\ h.tok.sym = IDENTIFIER =>
              /\ h.tok.value = StrValue(text)
              /\ \A kw \in KeywordKinds : ~IsSpelling(text, kw[1])

\* User_1 ASCx has been scanned to two identifiers that kept their case.
C25_Witness ==
  /\ Len(hist) = 2
  /\ hist[1].tok.sym = IDENTIFIER
  /\ hist[1].tok.value = StrValue(<<"U", "s", "e", "r", "_", "1">>)
  /\ hist[2].tok.sym = IDENTIFIER
  /\ hist[2].tok.value = StrValue(<<"A", "S", "C", "x">>)

\* desc has been scanned to kind 25 with -1 and tRuE to kind 27 with true.
C25_WitnessKeywords ==
  \/ /\ hist # <<>>
     /\ hist[1].tok.sym = ASCDESC
     /\ hist[1].tok.value = IntValue(-1)
     /\ input = <<"d", "e", "s", "c">>
  \/ /\ hist # <<>>
     /\ hist[1].tok.sym = BOOL_VALUE
     /\ hist[1].tok.value = BoolValue(TRUE)
     /\ input = <<"t", "r", "u", "E", " ", "N", "u", "l", "l", "s">>

\* The specification's number for each keyword.
KeywordNumbers ==
  { <<<<"S","E","L","E","C","T">>, 7>>,
    <<<<"D","I","S","T","I","N","C","T">>, 8>>,
    <<<<"F","R","O","M">>, 9>>,
    <<<<"J","O","I","N">>, 10>>,
    <<<<"O","N">>, 11>>,
    <<<<"A","S">>, 12>>,
    <<<<"W","H","E","R","E">>, 13>>,
    <<<<"A","N","D">>, 14>>,
    <<<<"O","R">>, 15>>,
    <<<<"X","O","R">>, 16>>,
    <<<<"N","O","T">>, 17>>,
    <<<<"I","N">>, 18>>,
    <<<<"I","S">>, 19>>,
    <<<<"N","U","L","L">>, 20>>,
    <<<<"B","E","T","W","E","E","N">>, 21>>,
    <<<<"O","R","D","E","R">>, 22>>,
    <<<<"B","Y">>, 23>>,
    <<<<"L","I","M","I","T">>, 24>>,
    <<<<"A","S","C">>, 25>>,
    <<<<"D","E","S","C">>, 25>>,
    <<<<"L","I","K","E">>, 26>>,
    <<<<"T","R","U","E">>, 27>>,
    <<<<"F","A","L","S","E">>, 27>>,
    <<<<"(">>, 1>>,
    <<<<")">>, 2>>,
    <<<<",">>, 3>>,
    <<<<".">>, 4>>,
    <<<<"*">>, 5>> }

\* The specification's number for a token whose source text is text.
KindNumber(text) ==
  IF text = <<>> THEN 0
  ELSE IF \E kw \in KeywordNumbers : IsSpelling(text, kw[1])
  THEN (CHOOSE kw \in KeywordNumbers : IsSpelling(text, kw[1]))[2]
  ELSE IF text \in OperatorTexts THEN 6
  ELSE IF text[1] = "\"" THEN 31
  ELSE IF IsWordStart(text[1])
  THEN (IF \E k \in DOMAIN text : text[k] = "." THEN 28 ELSE 29)
  ELSE 30

\* C26: every token the scanner returns has the kind number the fixed
\* numbering gives to its text, a number in 0..31, and the number after #
\* in a syntax error is the kind number of the token that was refused.
C26_KindNumbering ==
  /\ \A i \in DOMAIN hist :
       LET h == hist[i]
           text == Substring(TextStart(h.from.index), h.cur.index)
       IN h.err = NoError =>
            /\ h.tok.sym \in 0..31
            /\ h.tok.sym = KindNumber(text)
  /\ pc = "failed" =>
       LET h == hist[Len(hist)]
       IN /\ parseErr.found.lit = "#"
          /\ parseErr.found.sym =
               KindNumber(Substring(TextStart(h.from.index), h.cur.index))

\* SELECT * FROM users ) has failed on the closing parenthesis, shown as
\* #2.
C26_Witness ==
  /\ pc = "failed"
  /\ input = Join(<<1, 3, 5, 39, 33>>)
  /\ parseErr.found.lit = "#"
  /\ parseErr.found.sym = 2
  /\ Pulled = <<7, 5, 9, 29, 2>>

\* The offset of the first quote after the opening quote at offset p that
\* is preceded by an even number of backslashes.
ClosingQuote(p) ==
  CHOOSE q \in (p + 1)..(Len(input) - 1) :
    /\ input[q + 1] = "\"" /\ BackslashRun(p, q) % 2 = 0
    /\ \A m \in (p + 1)..(q - 1) :
         ~(input[m + 1] = "\"" /\ BackslashRun(p, m) % 2 = 0)

\* What the specification puts in the payload for the escaped character c.
Escaped(c) ==
  IF c = "t" THEN "\t"
  ELSE IF c = "n" THEN "\n"
  ELSE IF c = "r" THEN "\r"
  ELSE c

\* The payload of the literal opened at offset p and closed at offset q:
\* every enclosed character except the backslashes that introduce an
\* escape, the escaped characters replaced.
Enclosed(p, q) ==
  LET kept == {k \in (p + 1)..(q - 1) :
                 ~(input[k + 1] = "\\" /\ BackslashRun(p, k) % 2 = 0)}
      at(j) == CHOOSE k \in kept : Cardinality({m \in kept : m <= k}) = j
  IN [j \in 1..Cardinality(kept) |->
        IF BackslashRun(p, at(j)) % 2 = 1
        THEN Escaped(input[at(j) + 1])
        ELSE input[at(j) + 1]]

\* C27: a call of next() at a string literal that has a closing unescaped
\* quote returns a string token, consumes the text from the opening quote
\* through the first such quote, and carries the enclosed characters as
\* they are written (raw newlines and tabs included) except that \t, \n,
\* \r, \" and \\ stand for tab, newline, carriage return, quote and
\* backslash and any other escaped character stands for itself; no error
\* is raised.
C27_StringPayload ==
  \A i \in LastCall :
    LET h == hist[i]
        p == TextStart(h.from.index)
    IN (p < Len(input) /\ input[p + 1] = "\"" /\ HasClosingQuote(p)) =>
         /\ h.err = NoError
         /\ h.tok.sym = STRING_VALUE
         /\ h.cur.index = ClosingQuote(p) + 1
         /\ h.tok.value = StrValue(Enclosed(p, ClosingQuote(p)))

\* "\t\n\r\"\\" has been scanned to the five characters tab, newline,
\* carriage return, quote, backslash.
C27_Witness ==
  /\ Len(input) = 12
  /\ hist # <<>>
  /\ hist[1].tok.sym = STRING_VALUE
  /\ hist[1].tok.value = StrValue(<<"\t", "\n", "\r", "\"", "\\">>)
  /\ hist[1].cur.index = 12

\* "a\a<tab><newline>" has been scanned to a, a, tab, newline.
C27_WitnessRaw ==
  /\ hist # <<>>
  /\ hist[1].tok.value = StrValue(<<"a", "a", "\t", "\n">>)
  /\ hist[1].cur.index = 7

\* C28: a call of next() with nothing but space, tab, carriage return,
\* newline and form feed between the cursor and the end of the input (the
\* empty input included) returns the EOF token and raises nothing; with
\* such characters before other text it skips them and returns the token
\* of that text, or raises the error of that text, never a token or an
\* error for the skipped characters.
C28_BlankInput ==
  \A i \in LastCall :
    LET h == hist[i]
        p == TextStart(h.from.index)
    IN /\ (\A k \in (h.from.index + 1)..Len(input) : input[k] \in Blank) =>
            /\ h.err = NoError
            /\ h.tok.sym = EOF
            /\ h.tok.value = NullValue
            /\ h.cur.index = Len(input)
       /\ p < Len(input) =>
            /\ h.err = NoError => h.tok.sym # EOF /\ h.cur.index > p
            /\ h.err.kind = "Illegal character" =>
                 /\ h.err.ch = input[p + 1]
                 /\ h.err.ch \notin Blank
            /\ h.err # NoError =>
                 h.err.line = LineOf(p) /\ h.err.column >= ColumnOf(p)

\* The first call on an input of four blanks, a form feed among them, has
\* returned EOF.
C28_Witness ==
  /\ Len(hist) = 1
  /\ Len(input) = 4
  /\ \A k \in DOMAIN input : input[k] \in Blank
  /\ \E k \in DOMAIN input : input[k] = "\f"
  /\ \E k \in DOMAIN input : input[k] = "\r"
  /\ hist[1].tok.sym = EOF
  /\ index = 4

\* <form feed><tab> "" <cr> has been scanned to a string token and EOF.
C28_WitnessLeading ==
  /\ Len(hist) = 2
  /\ input[1] = "\f"
  /\ hist[1].tok.sym = STRING_VALUE
  /\ hist[2].tok.sym = EOF

\* C29: once deleteAsyncAPIDocument(id) has returned success for the id
\* of a document that insertAsyncAPIDocument created, the normalized
\* collection holds no document with that id, the metadata collection
\* none with the document's metadataId and the original collection none
\* that refers to that metadataId, whether the call was the first attempt
\* or a retry after an attempt that threw part-way.
C29_DeleteCascades ==
  (call.op = "delete" /\ call.at = "returned") =>
    \A r \in insertResults :
      r.insertedId = call.id =>
        /\ \A d \in normalizedCollection : d._id # r.insertedId
        /\ \A m \in metadataCollection : m._id # r.metadataId
        /\ \A o \in originalCollection : o.metadataId # r.metadataId

\* C30: every token next() returns (punctuation, operator, keyword,
\* identifier, number, string, qualified field) carries the line and the
\* column of the first character of its text, after any tokens and
\* newlines before it.
C30_TokenPosition ==
  \A i \in DOMAIN hist :
    LET h == hist[i]
        p == TextStart(h.from.index)
    IN (h.err = NoError /\ h.tok.sym # EOF) =>
         /\ h.tok.left = LineOf(p)
         /\ h.tok.right = ColumnOf(p)

\* The same for every token but the qualified fields.
TokenPositionExceptFields ==
  \A i \in DOMAIN hist :
    LET h == hist[i]
        p == TextStart(h.from.index)
    IN (h.err = NoError /\ h.tok.sym \notin {EOF, FIELD}) =>
         /\ h.tok.left = LineOf(p)
         /\ h.tok.right = ColumnOf(p)

\* C31: the text of every token other than EOF is the input between the
\* cursor after the blanks and the cursor at the return of the call: it is
\* not empty, a number token's payload is the value of that text, which is
\* a numeric literal, an identifier's or a field's payload is that text;
\* and no accepted query has a token that begins with + or - and is not
\* followed at once by a digit or by a dot and a digit.
C31_TokensFromConsumedText ==
  /\ \A i \in DOMAIN hist :
       LET h == hist[i]
           p == TextStart(h.from.index)
           text == Substring(p, h.cur.index)
       IN (h.err = NoError /\ h.tok.sym # EOF) =>
            /\ text # <<>>
            /\ h.tok.sym = NUM_VALUE =>
                 IsNumeric(text) /\ h.tok.value = ParseDouble(text)
            /\ h.tok.sym \in {IDENTIFIER, FIELD} => h.tok.value = StrValue(text)
            /\ h.tok.sym = OPERATOR => text \in OperatorTexts
  /\ pc = "done" =>
       \A i \in DOMAIN hist :
         LET p == TextStart(hist[i].from.index)
         IN (p < Len(input) /\ input[p + 1] \in {"+", "-"}) =>
              /\ p + 1 < Len(input)
              /\ \/ IsDigit(input[p + 2])
                 \/ /\ input[p + 2] = "."
                    /\ p + 2 < Len(input)
                    /\ IsDigit(input[p + 3])

\* The same without the number tokens.
TokensFromConsumedTextExceptNumbers ==
  \A i \in DOMAIN hist :
    LET h == hist[i]
        p == TextStart(h.from.index)
        text == Substring(p, h.cur.index)
    IN (h.err = NoError /\ h.tok.sym \notin {EOF, NUM_VALUE}) =>
         /\ text # <<>>
         /\ h.tok.sym \in {IDENTIFIER, FIELD} => h.tok.value = StrValue(text)
         /\ h.tok.sym = OPERATOR => text \in OperatorTexts

\* The scanner has returned EOF or raised, or parseQuery has returned or
\* raised.
Terminated ==
  IF pc = "direct"
  THEN /\ hist # <<>>
       /\ \/ hist[Len(hist)].err # NoError
          \/ hist[Len(hist)].tok.sym = EOF
  ELSE Finished

\* The caller has a step to take: a further call of next() within the
\* calls it makes, or the next step of parseQuery.
CanStep == IF pc = "direct" THEN Len(hist) < MaxCalls ELSE ~Finished

\* Weak fairness of the steps: a caller that has a step to take takes it.
Scheduled == []<>(~CanStep) \/ []<><<Next>>_vars

\* The index stays within the input; every call that returns a token
\* other than EOF ends at least one character further than it began; the
\* calls before the first EOF or error are at most as many as the
\* characters of the input; parseQuery pulls at most two tokens more than
\* the input has characters.
Progress ==
  /\ index <= Len(input)
  /\ \A i \in DOMAIN hist :
       /\ hist[i].cur.index <= Len(input)
       /\ (hist[i].err = NoError /\ hist[i].tok.sym # EOF) =>
            hist[i].cur.index >= hist[i].from.index + 1
       /\ (\A j \in 1..(i - 1) :
             hist[j].err = NoError /\ hist[j].tok.sym # EOF) =>
            i <= Len(input) + 1
  /\ pc \in ParserStates => Len(hist) <= Len(input) + 2

\* C32: scanning and validation always terminate: a call of next() that
\* returns a token other than EOF advances the index by at least one
\* character and the index never exceeds the length of the input, so on
\* an input of n characters the scanner returns EOF or raises within n + 1
\* calls and parseQuery returns or raises having pulled at most n + 2
\* tokens.
C32_Terminates == []Progress /\ (Scheduled => <>Terminated)

\* parseQuery has returned on SELECT * FROM users having pulled six
\* tokens, and the scanner called directly has returned EOF at its fifth
\* call on an input of four characters.
C32_Witness ==
  \/ /\ pc = "done"
     /\ input = Join(<<1, 3, 5, 39>>)
     /\ Len(hist) = 6
  \/ /\ pc = "direct"
     /\ Len(input) = 4
     /\ Len(hist) = 5
     /\ hist[5].tok.sym = EOF
     /\ \A j \in 1..4 : hist[j].tok.sym = DOT

\* The kinds of the keyword tokens.
KeywordTokenKinds == {kw[2] : kw \in KeywordKinds}

\* Whether text spells a keyword in some case.
SpellsKeyword(text) == \E kw \in KeywordKinds : IsSpelling(text, kw[1])

\* A step of the validator at a place where the grammar takes a field
\* takes a FIELD lookahead and pulls the next token; at a select-list
\* item or at the table name it refuses every keyword; at an operand it
\* refuses every keyword but NULL, TRUE and FALSE, which it takes.
FieldsNotKeywords ==
  /\ (/\ pc \in {"selectList", "fieldAfterComma", "tableName",
                 "condLeft", "condRight"}
      /\ lookahead.sym = FIELD) =>
       pc' # "failed" /\ Len(hist') = Len(hist) + 1
  /\ (/\ pc \in {"selectList", "fieldAfterComma", "tableName"}
      /\ lookahead.sym \in KeywordTokenKinds) =>
       pc' = "failed" /\ hist' = hist
  /\ (/\ pc \in {"condLeft", "condRight"}
      /\ lookahead.sym \in KeywordTokenKinds \ {NULL, BOOL_VALUE}) =>
       pc' = "failed" /\ hist' = hist
  /\ (/\ pc \in {"condLeft", "condRight"}
      /\ lookahead.sym \in {NULL, BOOL_VALUE}) =>
       pc' # "failed" /\ Len(hist') = Len(hist) + 1

\* The call h scanned from offset p the word that ends at e, a dot and
\* the word that ends at f: when either word spells a keyword the call
\* returned one FIELD token with the dotted text.
QualifiedAt(h, p, e, f) ==
  (SpellsKeyword(Substring(p, e)) \/ SpellsKeyword(Substring(e + 1, f))) =>
    /\ h.tok.sym = FIELD
    /\ h.tok.value = StrValue(Substring(p, f))
    /\ h.cur.index = f

\* The call h scanned from offset p the word that ends at e: followed by
\* a dot and a word start it is a qualified field; otherwise a word that
\* spells a keyword scanned to a keyword kind.
SegmentAt(h, p, e) ==
  IF e + 2 <= Len(input) /\ input[e + 1] = "." /\ IsWordStart(input[e + 2])
  THEN QualifiedAt(h, p, e, WordEnd(e + 1))
  ELSE SpellsKeyword(Substring(p, e)) => h.tok.sym \in KeywordTokenKinds

\* A word, a dot and a word start at the cursor scan to one FIELD token
\* with the dotted text even when a segment spells a keyword, and a word
\* that spells a keyword and is not so followed scans to a keyword kind.
\* Stated of the latest call; every call is the latest in some state.
KeywordSegments ==
  \A i \in LastCall :
    LET h == hist[i]
        p == TextStart(h.from.index)
    IN (p < Len(input) /\ IsWordStart(input[p + 1])) =>
         SegmentAt(h, p, WordEnd(p))

\* C33: the qualified-field test comes before the keyword lookup: a word
\* followed at once by a dot and a word start is one FIELD token even when
\* either word spells a keyword (select.from, t.limit) and is accepted
\* wherever the grammar accepts a field, while a keyword on its own is
\* never accepted as a select-list item, as the table name or as an
\* operand, NULL, TRUE and FALSE as operands excepted.
C33_FieldBeforeKeyword == []KeywordSegments /\ [][FieldsNotKeywords]_vars

\* SELECT DISTINCT select.from , t.limit FROM t.limit WHERE select.from =
\* t.limit AND NULL = TRUE has been accepted.
C33_Witness ==
  /\ pc = "done"
  /\ input = Join(<<1, 2, 43, 4, 44, 5, 44, 6, 43, 13, 44, 7, 16, 13, 17>>)
  /\ hist[3].tok.value =
       StrValue(<<"s", "e", "l", "e", "c", "t", ".", "f", "r", "o", "m">>)
  /\ hist[5].tok.sym = FIELD
  /\ hist[7].tok.sym = FIELD

\* SELECT LIMIT FROM users has failed on the keyword in the select list.
C33_WitnessKeyword ==
  /\ pc = "failed"
  /\ input = Join(<<1, 19, 5, 39>>)
  /\ parseErr.found.sym = LIMIT

\* Whether the character at offset p starts no token: it is not a quote,
\* not a punctuation or operator character, not a word start and not the
\* start of numeric scanning.
Unrecognized(p) ==
  /\ p < Len(input)
  /\ input[p + 1] \notin {"\"", "(", ")", ",", ".", "*", "=", "<", ">"}
  /\ ~IsWordStart(input[p + 1])
  /\ ~NumericTriggered(p)

\* C34: a call of next() whose first character after the blanks starts no
\* token raises "Illegal character" with that character and the line and
\* column of the character itself, returns no token, and leaves index,
\* line and column at that character; no other call raises that error.
C34_IllegalCharacter ==
  \A i \in LastCall :
    LET h == hist[i]
        p == TextStart(h.from.index)
    IN /\ (h.err.kind = "Illegal character") <=> Unrecognized(p)
       /\ Unrecognized(p) =>
            /\ h.tok = NoToken
            /\ h.err = IllegalCharacter(input[p + 1], LineOf(p), ColumnOf(p))
            /\ h.cur = [index |-> p, line |-> LineOf(p), column |-> ColumnOf(p)]
            /\ index = p
            /\ line = LineOf(p)
            /\ column = ColumnOf(p)

\* On a, newline, blank, backslash the second call has raised for the
\* backslash at line 1, column 1 and the cursor rests on it.
C34_Witness ==
  /\ input = <<"a", "\n", " ", "\\">>
  /\ Len(hist) = 2
  /\ hist[2].err = IllegalCharacter("\\", 1, 1)
  /\ index = 3
  /\ line = 1
  /\ column = 1

(***************************************************************************)
(* Lexer.flex: the JFlex scanner specification.  At each call the rule     *)
(* with the longest match is taken, the earliest rule among equal lengths; *)
(* %caseless makes every rule match in either case.                        *)
(***************************************************************************)
\* Identifier = [A-Za-z_][A-Za-z0-9_\-]*
FlexIdentifierStart(c) == c \in Range(LowerCase) \cup Range(UpperCase) \cup {"_"}

FlexIdentifierPart(c) == FlexIdentifierStart(c) \/ IsDigit(c) \/ c = "-"

\* The offset where the longest Identifier that starts at offset p ends,
\* or p when none starts there.
RECURSIVE FlexIdentifierRun(_)
FlexIdentifierRun(q) ==
  IF q < Len(input) /\ FlexIdentifierPart(input[q + 1])
  THEN FlexIdentifierRun(q + 1)
  ELSE q

FlexIdentifierEnd(p) ==
  IF p < Len(input) /\ FlexIdentifierStart(input[p + 1])
  THEN FlexIdentifierRun(p + 1)
  ELSE p

\* The literal rules of YYINITIAL in the order of the file, each with the
\* kind and the payload of its action.
FlexLiterals ==
  << [text |-> <<"(">>, sym |-> LP, value |-> NullValue],
     [text |-> <<")">>, sym |-> RP, value |-> NullValue],
     [text |-> <<",">>, sym |-> COMMA, value |-> NullValue],
     [text |-> <<".">>, sym |-> DOT, value |-> NullValue],
     [text |-> <<"*">>, sym |-> STAR, value |-> NullValue],
     [text |-> <<"=">>, sym |-> OPERATOR, value |-> StrValue(<<"$", "e", "q">>)],
     [text |-> <<"<", ">">>, sym |-> OPERATOR, value |-> StrValue(<<"$", "n", "e">>)],
     [text |-> <<">">>, sym |-> OPERATOR, value |-> StrValue(<<"$", "g", "t">>)],
     [text |-> <<">", "=">>, sym |-> OPERATOR,
      value |-> StrValue(<<"$", "g", "t", "e">>)],
     [text |-> <<"<">>, sym |-> OPERATOR, value |-> StrValue(<<"$", "l", "t">>)],
     [text |-> <<"<", "=">>, sym |-> OPERATOR,
      value |-> StrValue(<<"$", "l", "t", "e">>)],
     [text |-> <<"S","E","L","E","C","T">>, sym |-> SELECT, value |-> NullValue],
     [text |-> <<"D","I","S","T","I","N","C","T">>, sym |-> DISTINCT,
      value |-> NullValue],
     [text |-> <<"F","R","O","M">>, sym |-> FROM, value |-> NullValue],
     [text |-> <<"J","O","I","N">>, sym |-> JOIN, value |-> NullValue],
     [text |-> <<"O","N">>, sym |-> ON, value |-> NullValue],
     [text |-> <<"A","S">>, sym |-> AS, value |-> NullValue],
     [text |-> <<"W","H","E","R","E">>, sym |-> WHERE, value |-> NullValue],
     [text |-> <<"A","N","D">>, sym |-> AND, value |-> NullValue],
     [text |-> <<"O","R">>, sym |-> OR, value |-> NullValue],
     [text |-> <<"X","O","R">>, sym |-> XOR, value |-> NullValue],
     [text |-> <<"N","O","T">>, sym |-> NOT, value |-> NullValue],
     [text |-> <<"I","N">>, sym |-> sym_IN, value |-> NullValue],
     [text |-> <<"I","S">>, sym |-> IS, value |-> NullValue],
     [text |-> <<"N","U","L","L">>, sym |-> NULL, value |-> NullValue],
     [text |-> <<"B","E","T","W","E","E","N">>, sym |-> BETWEEN, value |-> NullValue],
     [text |-> <<"O","R","D","E","R">>, sym |-> ORDER, value |-> NullValue],
     [text |-> <<"B","Y">>, sym |-> sym_BY, value |-> NullValue],
     [text |-> <<"L","I","M","I","T">>, sym |-> LIMIT, value |-> NullValue],
     [text |-> <<"A","S","C">>, sym |-> ASCDESC, value |-> IntValue(1)],
     [text |-> <<"D","E","S","C">>, sym |-> ASCDESC, value |-> IntValue(-1)],
     [text |-> <<"L","I","K","E">>, sym |-> LIKE, value |-> NullValue],
     [text |-> <<"T","R","U","E">>, sym |-> BOOL_VALUE, value |-> BoolValue(TRUE)],
     [text |-> <<"F","A","L","S","E">>, sym |-> BOOL_VALUE,
      value |-> BoolValue(FALSE)] >>

\* Whether the literal text matches at offset p, in either case.
FlexLiteralAt(text, p) ==
  /\ p + Len(text) <= Len(input)
  /\ \A k \in DOMAIN text : ToUpperChar(input[p + k]) = text[k]

\* {Identifier}\.{Identifier}: the offset where its longest match from p
\* ends, or p.
FlexFieldEnd(p) ==
  LET dot == FlexIdentifierEnd(p)
  IN IF /\ dot > p
        /\ dot < Len(input)
        /\ input[dot + 1] = "."
        /\ FlexIdentifierEnd(dot + 1) > dot + 1
     THEN FlexIdentifierEnd(dot + 1)
     ELSE p

\* NumLiteral = [-+]?[0-9]*\.?[0-9]+([eE][-+]?[0-9]+)? : the length of its
\* longest match at offset p, or 0.
FlexNumLiteral(p) == LongestNumeric(p)

\* [ \t\r\n\f]+ : the offset where the run of blanks from p ends.
RECURSIVE FlexBlankEnd(_)
FlexBlankEnd(p) ==
  IF p < Len(input) /\ input[p + 1] \in {" ", "\t", "\r", "\n", "\f"}
  THEN FlexBlankEnd(p + 1)
  ELSE p

\* A result of the generated scanner: a token, or the Error of the last
\* rule, and the offset it leaves.
FlexReturn(id, value, next) ==
  [sym |-> id, value |-> value, err |-> "none", next |-> next]

FlexError(next) ==
  [sym |-> -1, value |-> NullValue, err |-> "Illegal character", next |-> next]

\* The STRING state from offset q with the buffer builder.  The end of the
\* input returns EOF, the action %cup gives to every state.
RECURSIVE FlexString(_, _)
FlexString(q, builder) ==
  IF q >= Len(input) THEN FlexReturn(EOF, NullValue, q)
  ELSE IF input[q + 1] = "\"" THEN FlexReturn(STRING_VALUE, StrValue(builder), q + 1)
  ELSE IF input[q + 1] \in {"\n", "\r", "\t"} THEN FlexError(q + 1)
  ELSE IF input[q + 1] # "\\" THEN FlexString(q + 1, Append(builder, input[q + 1]))
  ELSE IF q + 1 < Len(input) /\ input[q + 2] \in {"t", "n", "r", "\""}
  THEN FlexString(q + 2, Append(builder, Unescape(input[q + 2])))
  ELSE FlexString(q + 1, Append(builder, "\\"))

\* The longest literal rule that matches at offset p, the earliest among
\* the longest, or 0.
FlexLiteralRule(p) ==
  LET hits == {k \in DOMAIN FlexLiterals : FlexLiteralAt(FlexLiterals[k].text, p)}
  IN IF hits = {} THEN 0
     ELSE CHOOSE k \in hits :
            \A m \in hits :
              \/ Len(FlexLiterals[m].text) < Len(FlexLiterals[k].text)
              \/ Len(FlexLiterals[m].text) = Len(FlexLiterals[k].text) /\ k <= m

\* One call of the generated next_token from offset p in YYINITIAL.
RECURSIVE FlexNextToken(_)
FlexNextToken(p) ==
  IF p >= Len(input) THEN FlexReturn(EOF, NullValue, p)
  ELSE
    LET k == FlexLiteralRule(p)
        lit == IF k = 0 THEN 0 ELSE Len(FlexLiterals[k].text)
        field == FlexFieldEnd(p) - p
        ident == FlexIdentifierEnd(p) - p
        num == FlexNumLiteral(p)
        blank == FlexBlankEnd(p) - p
    IN IF lit > 0 /\ lit >= field /\ lit >= ident /\ lit >= num
       THEN FlexReturn(FlexLiterals[k].sym, FlexLiterals[k].value, p + lit)
       ELSE IF field > 0 /\ field >= ident /\ field >= num
       THEN FlexReturn(FIELD, StrValue(Substring(p, p + field)), p + field)
       ELSE IF ident > 0 /\ ident >= num
       THEN FlexReturn(IDENTIFIER, StrValue(Substring(p, p + ident)), p + ident)
       ELSE IF num > 0
       THEN FlexReturn(NUM_VALUE, ParseDouble(Substring(p, p + num)), p + num)
       ELSE IF input[p + 1] = "\"" THEN FlexString(p + 1, <<>>)
       ELSE IF blank > 0 THEN FlexNextToken(p + blank)
       ELSE FlexError(p + 1)

\* The result of the i-th call of the generated scanner on the input.
RECURSIVE FlexCall(_)
FlexCall(i) ==
  IF i = 1 THEN FlexNextToken(0) ELSE FlexNextToken(FlexCall(i - 1).next)

\* C35: on every input the hand-written scanner and the scanner that
\* Lexer.flex specifies return the same kinds and payloads call after
\* call, and one raises exactly when the other does.
C35_RefinesFlex ==
  \A i \in DOMAIN hist :
    (\A j \in 1..(i - 1) :
       hist[j].err = NoError /\ FlexCall(j).err = "none") =>
      /\ (hist[i].err = NoError) <=> (FlexCall(i).err = "none")
      /\ hist[i].err = NoError =>
           /\ hist[i].tok.sym = FlexCall(i).sym
           /\ hist[i].tok.value = FlexCall(i).value

\* The documents of the three collections that the running call created.
CreatedByCall ==
  {m \in metadataCollection : call.metadataId # 0 /\ m._id = call.metadataId}
    \cup {d \in normalizedCollection :
            call.normalizedId # 0 /\ d._id = call.normalizedId}
    \cup {o \in originalCollection : call.originalId # 0 /\ o._id = call.originalId}

\* C36: insertAsyncAPIDocument is all or nothing.  A call in which a step
\* fails ends by throwing, and when every compensating delete of its catch
\* block took effect no collection holds a document the call created; a
\* call that returns leaves a normalized document that refers to a
\* metadata document in the collection, and that metadata document refers
\* to the normalized document and to the original document created.
C36_InsertAllOrNothing ==
  /\ At("insert", "thrown") /\ call.compensated = Inserted => CreatedByCall = {}
  /\ At("insert", "returned") =>
       /\ \E d \in normalizedCollection :
            d._id = call.normalizedId /\ d.metadataId = call.metadataId
       /\ \E m \in metadataCollection :
            /\ m._id = call.metadataId
            /\ m.normalizedId = call.normalizedId
            /\ m.originalId = call.originalId
       /\ \E o \in originalCollection : o._id = call.originalId

\* The last update of metadata was rejected after three inserts and the
\* three compensating deletes took effect.
C36_Witness ==
  /\ At("insert", "thrown")
  /\ call.originalId # 0
  /\ call.compensated = {"original", "normalized", "metadata"}

\* The id of the running deleteAsyncAPIDocument call names no document of
\* the normalized collection.
Missing == \A d \in normalizedCollection : d._id # call.id

\* The step deleteAsyncAPIDocument takes for a missing id.
DeleteMissing ==
  (At("delete", "findOne") /\ Missing) =>
    /\ UNCHANGED <<metadataCollection, normalizedCollection, originalCollection>>
    /\ call'.at \in {"returned", "thrown"}
    /\ call'.at = "thrown" => call'.rejected
    /\ call'.at = "returned" =>
         /\ call'.deletedCount = 0
         /\ call'.metadataDeletedCount = 0
         /\ call'.originalDeletedCount = 0

Connected == isConnected /\ db # 0

\* Caller t makes the call op in this step, or the call op of caller t
\* resumes after its await.
Calls(t, op) == tasks'[t].no # tasks[t].no /\ tasks'[t].op = op

Resumes(t, op) ==
  /\ tasks'[t] # tasks[t]
  /\ tasks'[t].no = tasks[t].no
  /\ tasks'[t].op = op

Completes(t, op) ==
  (Calls(t, op) \/ Resumes(t, op)) /\ tasks'[t].at = "returned"

\* What one step of a caller does to the connection.
Lifecycle ==
  /\ \A t \in Callers :
       /\ Calls(t, "getDatabase") \/ Calls(t, "getCollection") =>
            /\ tasks'[t].at = "thrown" <=> ~Connected
            /\ tasks'[t].at = "returned" => tasks'[t].result = db
       /\ Completes(t, "connect") => Connected' /\ tasks'[t].result = db'
       /\ Calls(t, "connect") /\ Connected =>
            /\ tasks'[t].at = "returned"
            /\ tasks'[t].result = db
            /\ UNCHANGED <<client, db, mongoClients>>
       /\ Resumes(t, "close") /\ tasks'[t].at = "returned" =>
            /\ ~isDatabaseConnected'
            /\ client' = 0
            /\ db' = 0
       /\ Calls(t, "close") /\ mongoClients = <<>> =>
            /\ tasks'[t].at = "returned"
            /\ UNCHANGED <<client, db, isConnected, mongoClients>>
  /\ Connected' /\ ~Connected => \E t \in Callers : Completes(t, "connect")
  /\ Connected /\ ~Connected' => \E t \in Callers : Completes(t, "close")

OneClientConstructed ==
  \A t, u \in Callers :
    (tasks[t].at = "awaitConnect" /\ tasks[u].at = "awaitConnect") =>
      tasks[t].awaiting = tasks[u].awaiting

\* When a close() was the last call made and it has returned with no call
\* waiting, no client that connected is left open.
CloseClosesAll ==
  (\E t \in Callers :
     /\ tasks[t].op = "close" /\ tasks[t].at = "returned"
     /\ tasks[t].no = served
     /\ \A u \in Callers : tasks[u].at \in {"idle", "returned", "thrown"}) =>
    \A i \in DOMAIN mongoClients : mongoClients[i] # "connected"

\* C39: two connect() calls made on the singleton before either completes
\* construct one MongoClient between them, and a later close() leaves no
\* connected client open.
C39_SingleClient == OneClientConstructed /\ CloseClosesAll

====
